---- MODULE Spec2Model ----
(***************************************************************************)
(* Session-management core of fastapi-template: the signer, the redis      *)
(* session store, the SessionService, the authentication gate and the      *)
(* role gate.                                                              *)
(*                                                                         *)
(* Time.  `now' is the wall clock (time.time()) counted in ticks of        *)
(* 1/TicksPerSecond second, so that the float clock of SessionData and    *)
(* has_expired is finer than the whole-second timestamp the signer embeds. *)
(* One call of a handler observes one clock value.                         *)
(* SESSION_EXPIRATION and SESSION_MAX_LIFETIME are the source's durations  *)
(* (3600 s and 86400 s) scaled down to a few seconds; the model relies     *)
(* only on 0 < SESSION_EXPIRATION <= SESSION_MAX_LIFETIME.                 *)
(*                                                                         *)
(* Optional values (Python's `X | None') are sets with at most one         *)
(* element: None is {} and a present value x is {x}.                       *)
(***************************************************************************)
EXTENDS Integers, FiniteSets, Sequences, TLC

\* ------------------------------------------------------------------ bounds
TicksPerSecond == 2

SESSION_EXPIRATION == 2

SESSION_MAX_LIFETIME == 3

\* sessions created in one run
MaxSessions == 1

\* requests served at the same time
MaxCalls == 2

\* create_session is called during the first LoginWindow ticks
LoginWindow == 1

\* the clock stops late enough for a key to outlive its signature
MaxTime == (SESSION_MAX_LIFETIME + 1) * TicksPerSecond + LoginWindow

\* ------------------------------------------------------------ value spaces
None == {}

Some(x) == {x}

The(opt) == CHOOSE x \in opt : TRUE

Usernames == {"alice", "bob", "carol"}

Roles == {"admin", "user", "read_only"}

\* UserAgentInfo(user_agent, device, os, browser, is_bot)
UserAgentInfo(raw, device, os, browser, bot) ==
    [user_agent |-> raw, device |-> device, os |-> os, browser |-> browser,
     is_bot |-> bot]

\* ClientFingerprint(ip_address, user_agent)
ClientFingerprint(ip, ua) == [ip_address |-> ip, user_agent |-> ua]

FpA == ClientFingerprint("1.2.3.4", UserAgentInfo("Chrome/Mac", "Mac", "macOS", "Chrome", FALSE))

\* same derived device / os / browser, other raw string and bot flag
FpARaw == ClientFingerprint("1.2.3.4", UserAgentInfo("Chrome/Mac; bot", "Mac", "macOS", "Chrome", TRUE))

FpIp == ClientFingerprint("5.6.7.8", UserAgentInfo("Chrome/Mac", "Mac", "macOS", "Chrome", FALSE))

FpDevice == ClientFingerprint("1.2.3.4", UserAgentInfo("Chrome/Mac", "iPhone", "macOS", "Chrome", FALSE))

FpOs == ClientFingerprint("1.2.3.4", UserAgentInfo("Chrome/Mac", "Mac", "Windows", "Chrome", FALSE))

FpBrowser == ClientFingerprint("1.2.3.4", UserAgentInfo("Chrome/Mac", "Mac", "macOS", "Firefox", FALSE))

Fingerprints == {FpA, FpARaw, FpIp, FpDevice, FpOs, FpBrowser}

\* the users that log in, each from their own client
Logins == {[username |-> "alice", role |-> "user", client |-> FpA],
           [username |-> "bob", role |-> "admin", client |-> FpOs]}

\* ------------------------------------------------------ fingerprint.py
\* variant: the raw user-agent string takes part in the comparison
UserAgentEq_raw(a, b) ==
    /\ a.user_agent = b.user_agent
    /\ a.device = b.device
    /\ a.os = b.os
    /\ a.browser = b.browser

\* variant: the comparison a dataclass generates, over all five fields
UserAgentEq_fields(a, b) ==
    /\ a.user_agent = b.user_agent
    /\ a.device = b.device
    /\ a.os = b.os
    /\ a.browser = b.browser
    /\ a.is_bot = b.is_bot

\* UserAgentInfo.__eq__
UserAgentEq(a, b) ==
    /\ a.device = b.device
    /\ a.os = b.os
    /\ a.browser = b.browser

\* variant: the IP address is left out of the comparison
FingerprintEquals_noip(a, b) == UserAgentEq(a.user_agent, b.user_agent)

\* ClientFingerprint.equals / __eq__
FingerprintEquals(a, b) ==
    /\ a.ip_address = b.ip_address
    /\ UserAgentEq(a.user_agent, b.user_agent)

\* ------------------------------------------------------ cryptography.py
\* int(time.time()): the whole second the clock value t lies in
Seconds(t) == t \div TicksPerSecond

\* the HMAC of a value and a timestamp under the server's secret key: only
\* the server computes it, and different contents have different MACs
Mac(value, ts) == <<value, ts>>

\* variant: the signature covers the value only, not the timestamp
Verifies_valueonly(signed) ==
    Len(signed.sig) = 2 /\ signed.sig[1] = signed.key

\* the signature part of a signed value verifies
Verifies(signed) == signed.sig = Mac(signed.key, signed.ts)

\* CryptoUtils.sign: URLSafeTimedSerializer.dumps embeds the whole-second
\* timestamp and a signature over value and timestamp
sign(value, t) ==
    [key |-> value, ts |-> Seconds(t), sig |-> Mac(value, Seconds(t))]

\* variant: a value as old as max_age is rejected already
unsign_ge(signed, max_age, t) ==
    IF ~Verifies(signed) THEN [value |-> None, exc |-> "BadSignature"]
    ELSE IF Seconds(t) - signed.ts >= max_age
    THEN [value |-> None, exc |-> "SignatureExpired"]
    ELSE [value |-> Some(signed.key), exc |-> ""]

\* CryptoUtils.unsign: URLSafeTimedSerializer.loads raises BadSignature on a
\* signature that does not verify and SignatureExpired when
\* int(time.time()) - timestamp > max_age; the value otherwise
unsign(signed, max_age, t) ==
    IF ~Verifies(signed) THEN [value |-> None, exc |-> "BadSignature"]
    ELSE IF Seconds(t) - signed.ts > max_age
    THEN [value |-> None, exc |-> "SignatureExpired"]
    ELSE [value |-> Some(signed.key), exc |-> ""]

\* CryptoUtils.hash: CryptContext(schemes=['bcrypt']).hash gives a bcrypt
\* hash string of the plain text
HashOf(input_string) ==
    [scheme |-> "bcrypt", digest |-> input_string, wellformed |-> TRUE]

\* a bcrypt hash string cut short
TruncatedHash == [scheme |-> "bcrypt", digest |-> "", wellformed |-> FALSE]

\* a string that no scheme of the context recognises (a plain-text password)
UnknownHash == [scheme |-> "", digest |-> "pw-alice", wellformed |-> FALSE]

\* CryptoUtils.verify_hash: CryptContext.verify raises UnknownHashError for
\* a hash no scheme of the context identifies and ValueError for a bcrypt
\* hash that is malformed; neither is caught
verify_hash(plain_text, hashed_text) ==
    IF hashed_text.scheme # "bcrypt"
    THEN [ok |-> None, exc |-> "UnknownHashError"]
    ELSE IF ~hashed_text.wellformed
    THEN [ok |-> None, exc |-> "ValueError"]
    ELSE [ok |-> Some(hashed_text.digest = plain_text), exc |-> ""]

\* ------------------------------------------------------ redis client
\* SET key value EX ex
RedisSet(r, k, v, ex, t) ==
    [x \in DOMAIN r \cup {k} |->
        IF x = k THEN [value |-> v, expire_at |-> t + ex * TicksPerSecond]
        ELSE r[x]]

\* GET key: the value, or None for a missing key
RedisGet(r, k) == IF k \in DOMAIN r THEN Some(r[k].value) ELSE None

\* DEL key
RedisDelete(r, k) == [x \in DOMAIN r \ {k} |-> r[x]]

\* variant: ex is added to the time to live the key has left
RedisExpire_incr(r, k, ex, t) ==
    IF k \in DOMAIN r
    THEN [r EXCEPT ![k].expire_at = @ + ex * TicksPerSecond]
    ELSE r

\* variant: a missing key is created, empty, with the time to live
RedisExpire_upsert(r, k, ex, t) ==
    [x \in DOMAIN r \cup {k} |->
        [value |-> IF x \in DOMAIN r THEN r[x].value
                   ELSE [text |-> "", doc |-> {}],
         expire_at |-> IF x = k THEN t + ex * TicksPerSecond ELSE r[x].expire_at]]

\* EXPIRE key ex: resets the time to live of an existing key only
RedisExpire(r, k, ex, t) ==
    IF k \in DOMAIN r
    THEN [r EXCEPT ![k].expire_at = t + ex * TicksPerSecond]
    ELSE r

\* TTL key: -2 for a missing key, else the remaining time to live in seconds,
\* the milliseconds rounded to the nearest second
RedisTtl(r, k, t) ==
    IF k \notin DOMAIN r THEN 0 - 2
    ELSE (2 * (r[k].expire_at - t) + TicksPerSecond) \div (2 * TicksPerSecond)

\* the keys whose time to live has not run out at clock value t
RedisPurge(r, t) == [x \in {k \in DOMAIN r : r[k].expire_at > t} |-> r[x]]

\* ------------------------------------------------------ json
\* variant: the payload is written as str(payload), which is not JSON
json_dumps_repr(payload) == [text |-> "not json", doc |-> None]

\* json.dumps of the dict of a SessionData: string keys and JSON leaves, which
\* json.loads gives back as they were
json_dumps(payload) == [text |-> "session", doc |-> Some(payload)]

\* stored strings that are not the dump of a SessionData dict: the empty
\* string, text that is not JSON, JSON null, a JSON object of another shape
EmptyString == [text |-> "", doc |-> None]

NotJson == [text |-> "not json", doc |-> None]

JsonNull == [text |-> "null", doc |-> None]

JsonOther == [text |-> "{\"a\": 1}", doc |-> None]

CorruptValues == {EmptyString, NotJson, JsonNull, JsonOther}

\* json.loads: raises on text that is not JSON; falsy is Python's truth value
\* of the decoded value, doc the SessionData dict when the value is one
json_loads(s) ==
    IF s.text = "not json" \/ s.text = ""
    THEN [falsy |-> TRUE, doc |-> None, exc |-> "JSONDecodeError"]
    ELSE [falsy |-> s.text = "null", doc |-> s.doc, exc |-> ""]

\* ------------------------------------------------------ schema.py
\* SessionData.create
SessionDataCreate(username, role, client, t) ==
    [identity |-> [username |-> username, role |-> role],
     created_at |-> t,
     client |-> client]

\* SessionData(**payload): pydantic raises ValidationError on a dict that
\* does not have the fields of a SessionData
SessionDataParse(payload) ==
    IF payload.doc = None THEN [session |-> None, exc |-> "ValidationError"]
    ELSE [session |-> payload.doc, exc |-> ""]

\* SessionData.trusts_client
trusts_client(session, client) == FingerprintEquals(session.client, client)

\* ------------------------------------------------------ session_store.py
\* variant: the unsigned key is left out of the redis key
session_key_prefix(key) == <<"auth:sessions", 0>>

session_key(key) == <<"auth:sessions", key>>

\* variant: the exception of unsign is not caught
resolve_signature_uncaught(signed_key, max_age, t) ==
    LET u == unsign(signed_key, max_age, t)
    IN  [key |-> u.value, exc |-> u.exc]

\* variant: the signature is verified without an age limit
resolve_signature_noage(signed_key, max_age, t) ==
    LET u == unsign(signed_key, Seconds(t), t)
    IN  [key |-> u.value, exc |-> ""]

\* SessionKeyStore.resolve_signature: the unsigned key; every exception of
\* unsign is caught and gives None
resolve_signature(signed_key, max_age, t) ==
    LET u == unsign(signed_key, max_age, t)
    IN  [key |-> u.value, exc |-> ""]

\* variant: ex is not passed on to SET, so the key never expires
create_and_store_noex(r, unsigned_session_id, payload, ex, t) ==
    [redis |-> RedisSet(r, session_key(unsigned_session_id), json_dumps(payload),
                        MaxTime + 1, t),
     signed_key |-> sign(unsigned_session_id, t)]

\* SessionKeyStore.create_and_store / SessionRepository.register_session
create_and_store(r, unsigned_session_id, payload, ex, t) ==
    [redis |-> RedisSet(r, session_key(unsigned_session_id), json_dumps(payload), ex, t),
     signed_key |-> sign(unsigned_session_id, t)]

\* SessionKeyStore.get_session: the decoded payload, None (truthy FALSE, as
\* is an empty or null payload) for a bad signature, a missing key or a
\* value json.loads rejects
get_session(r, signed_key, max_age, t) ==
    LET unsigned_key == resolve_signature(signed_key, max_age, t)
        json_payload == RedisGet(r, session_key(The(unsigned_key.key)))
        loaded == json_loads(The(json_payload))
        absent == [truthy |-> FALSE, doc |-> None, exc |-> ""]
    IN  IF unsigned_key.exc # "" THEN [absent EXCEPT !.exc = unsigned_key.exc]
        ELSE IF unsigned_key.key = None THEN absent
        ELSE IF json_payload = None \/ The(json_payload).text = "" THEN absent
        ELSE IF loaded.exc # "" THEN absent
        ELSE [truthy |-> ~loaded.falsy, doc |-> loaded.doc, exc |-> ""]

\* variant: the key is deleted under another namespace prefix
delete_session_prefix(r, signed_key, max_age, t) ==
    LET unsigned_key == resolve_signature(signed_key, max_age, t)
    IN  IF unsigned_key.exc # "" THEN [redis |-> r, exc |-> unsigned_key.exc]
        ELSE IF unsigned_key.key = None THEN [redis |-> r, exc |-> ""]
        ELSE [redis |-> RedisDelete(r, <<"sessions", The(unsigned_key.key)>>),
              exc |-> ""]

\* SessionKeyStore.delete_session
delete_session(r, signed_key, max_age, t) ==
    LET unsigned_key == resolve_signature(signed_key, max_age, t)
    IN  IF unsigned_key.exc # "" THEN [redis |-> r, exc |-> unsigned_key.exc]
        ELSE IF unsigned_key.key = None THEN [redis |-> r, exc |-> ""]
        ELSE [redis |-> RedisDelete(r, session_key(The(unsigned_key.key))),
              exc |-> ""]

\* variant: the key's time to live is set to max_age
extend_session_maxage(r, signed_key, ex, max_age, t) ==
    LET unsigned_key == resolve_signature(signed_key, max_age, t)
    IN  IF unsigned_key.exc # "" THEN [redis |-> r, exc |-> unsigned_key.exc]
        ELSE IF unsigned_key.key = None THEN [redis |-> r, exc |-> ""]
        ELSE [redis |-> RedisExpire(r, session_key(The(unsigned_key.key)), max_age, t),
              exc |-> ""]

\* SessionKeyStore.extend_session
extend_session(r, signed_key, ex, max_age, t) ==
    LET unsigned_key == resolve_signature(signed_key, max_age, t)
    IN  IF unsigned_key.exc # "" THEN [redis |-> r, exc |-> unsigned_key.exc]
        ELSE IF unsigned_key.key = None THEN [redis |-> r, exc |-> ""]
        ELSE [redis |-> RedisExpire(r, session_key(The(unsigned_key.key)), ex, t),
              exc |-> ""]

\* variant: the key's time to live is reset before it is read
get_session_ttl_extend(r, signed_session_id, max_age, t) ==
    LET extended == extend_session(r, signed_session_id, max_age, max_age, t)
        unsigned_key == resolve_signature(signed_session_id, max_age, t)
        ttl == RedisTtl(extended.redis, session_key(The(unsigned_key.key)), t)
    IN  IF unsigned_key.exc # ""
        THEN [redis |-> r, ttl |-> 0, exc |-> unsigned_key.exc]
        ELSE IF unsigned_key.key = None THEN [redis |-> r, ttl |-> 0, exc |-> ""]
        ELSE [redis |-> extended.redis, ttl |-> IF ttl >= 0 THEN ttl ELSE 0,
              exc |-> ""]

\* variant: the reply of TTL is returned as it is
get_session_ttl_unclamped(r, signed_session_id, max_age, t) ==
    LET unsigned_key == resolve_signature(signed_session_id, max_age, t)
        ttl == RedisTtl(r, session_key(The(unsigned_key.key)), t)
    IN  IF unsigned_key.exc # ""
        THEN [redis |-> r, ttl |-> 0, exc |-> unsigned_key.exc]
        ELSE IF unsigned_key.key = None THEN [redis |-> r, ttl |-> 0, exc |-> ""]
        ELSE [redis |-> r, ttl |-> ttl, exc |-> ""]

\* SessionKeyStore.get_session_ttl: the store after the call and the
\* remaining time to live in seconds, 0 for a key that cannot be resolved
get_session_ttl(r, signed_session_id, max_age, t) ==
    LET unsigned_key == resolve_signature(signed_session_id, max_age, t)
        ttl == RedisTtl(r, session_key(The(unsigned_key.key)), t)
    IN  IF unsigned_key.exc # ""
        THEN [redis |-> r, ttl |-> 0, exc |-> unsigned_key.exc]
        ELSE IF unsigned_key.key = None THEN [redis |-> r, ttl |-> 0, exc |-> ""]
        ELSE [redis |-> r, ttl |-> IF ttl >= 0 THEN ttl ELSE 0, exc |-> ""]

\* ------------------------------------------------------ service.py
\* variant: elapsed is computed with the wrong sign
has_expired_signflip(start_time, duration, t) ==
    LET elapsed == start_time - t
        remaining == duration * TicksPerSecond - elapsed
    IN  remaining <= 0

\* variant: a record whose age equals the duration has not expired yet
has_expired_strict(start_time, duration, t) ==
    LET elapsed == t - start_time
        remaining == duration * TicksPerSecond - elapsed
    IN  remaining < 0

\* has_expired(start_time, duration) read at clock value t
has_expired(start_time, duration, t) ==
    LET elapsed == t - start_time
        remaining == duration * TicksPerSecond - elapsed
    IN  remaining <= 0

\* variant: the record is stored with the max lifetime as time to live
create_session_maxage(r, unsigned_session_id, username, role, client, t) ==
    LET session_payload == SessionDataCreate(username, role, client, t)
        stored == create_and_store(r, unsigned_session_id, session_payload,
                                   SESSION_MAX_LIFETIME, t)
    IN  [redis |-> stored.redis, session |-> session_payload,
         signed_key |-> stored.signed_key]

\* SessionService.create_session: the store after the call, the SessionData
\* written and the signed key returned
create_session(r, unsigned_session_id, username, role, client, t) ==
    LET session_payload == SessionDataCreate(username, role, client, t)
        stored == create_and_store(r, unsigned_session_id, session_payload,
                                   SESSION_EXPIRATION, t)
    IN  [redis |-> stored.redis, session |-> session_payload,
         signed_key |-> stored.signed_key]

\* variant: the ValidationError of SessionData(**payload) is not caught
load_session_uncaught(r, signed_key, inbound_client, t) ==
    LET session_payload == get_session(r, signed_key, SESSION_MAX_LIFETIME, t)
        parsed == SessionDataParse(session_payload)
        session == The(parsed.session)
        session_highjacked == ~trusts_client(session, inbound_client)
        session_expired == has_expired(session.created_at, SESSION_MAX_LIFETIME, t)
        deleted == delete_session(r, signed_key, SESSION_MAX_LIFETIME, t)
        extended == extend_session(r, signed_key, SESSION_EXPIRATION,
                                   SESSION_MAX_LIFETIME, t)
    IN  IF session_payload.exc # ""
        THEN [redis |-> r, result |-> None, exc |-> session_payload.exc]
        ELSE IF ~session_payload.truthy
        THEN [redis |-> r, result |-> None, exc |-> ""]
        ELSE IF parsed.exc # ""
        THEN [redis |-> r, result |-> None, exc |-> parsed.exc]
        ELSE IF session_expired \/ session_highjacked
        THEN [redis |-> deleted.redis, result |-> None, exc |-> deleted.exc]
        ELSE [redis |-> extended.redis,
              result |-> IF extended.exc = "" THEN Some(session) ELSE None,
              exc |-> extended.exc]

\* variant: a valid session is stored again with created_at set to the time
\* of the call
load_session_refresh(r, signed_key, inbound_client, t) ==
    LET session_payload == get_session(r, signed_key, SESSION_MAX_LIFETIME, t)
        parsed == SessionDataParse(session_payload)
        session == The(parsed.session)
        session_highjacked == ~trusts_client(session, inbound_client)
        session_expired == has_expired(session.created_at, SESSION_MAX_LIFETIME, t)
        deleted == delete_session(r, signed_key, SESSION_MAX_LIFETIME, t)
        extended == extend_session(r, signed_key, SESSION_EXPIRATION,
                                   SESSION_MAX_LIFETIME, t)
    IN  IF session_payload.exc # ""
        THEN [redis |-> r, result |-> None, exc |-> session_payload.exc]
        ELSE IF ~session_payload.truthy
        THEN [redis |-> r, result |-> None, exc |-> ""]
        ELSE IF parsed.exc # ""
        THEN [redis |-> r, result |-> None, exc |-> ""]
        ELSE IF session_expired \/ session_highjacked
        THEN [redis |-> deleted.redis, result |-> None, exc |-> deleted.exc]
        ELSE [redis |-> RedisSet(r, session_key(signed_key.key),
                                 json_dumps([session EXCEPT !.created_at = t]),
                                 SESSION_EXPIRATION, t),
              result |-> Some(session),
              exc |-> ""]

\* variant: the age of the record is not checked, only the fingerprint
load_session_noexpiry(r, signed_key, inbound_client, t) ==
    LET session_payload == get_session(r, signed_key, SESSION_MAX_LIFETIME, t)
        parsed == SessionDataParse(session_payload)
        session == The(parsed.session)
        session_highjacked == ~trusts_client(session, inbound_client)
        deleted == delete_session(r, signed_key, SESSION_MAX_LIFETIME, t)
        extended == extend_session(r, signed_key, SESSION_EXPIRATION,
                                   SESSION_MAX_LIFETIME, t)
    IN  IF session_payload.exc # ""
        THEN [redis |-> r, result |-> None, exc |-> session_payload.exc]
        ELSE IF ~session_payload.truthy
        THEN [redis |-> r, result |-> None, exc |-> ""]
        ELSE IF parsed.exc # ""
        THEN [redis |-> r, result |-> None, exc |-> ""]
        ELSE IF session_highjacked
        THEN [redis |-> deleted.redis, result |-> None, exc |-> deleted.exc]
        ELSE [redis |-> extended.redis,
              result |-> IF extended.exc = "" THEN Some(session) ELSE None,
              exc |-> extended.exc]

\* SessionService.load_session: the store after the call, the returned
\* SessionData (None when the session is rejected) and the exception that
\* leaves the call, "" when none does
load_session(r, signed_key, inbound_client, t) ==
    LET session_payload == get_session(r, signed_key, SESSION_MAX_LIFETIME, t)
        parsed == SessionDataParse(session_payload)
        session == The(parsed.session)
        session_highjacked == ~trusts_client(session, inbound_client)
        session_expired == has_expired(session.created_at, SESSION_MAX_LIFETIME, t)
        deleted == delete_session(r, signed_key, SESSION_MAX_LIFETIME, t)
        extended == extend_session(r, signed_key, SESSION_EXPIRATION,
                                   SESSION_MAX_LIFETIME, t)
    IN  IF session_payload.exc # ""
        THEN [redis |-> r, result |-> None, exc |-> session_payload.exc]
        ELSE IF ~session_payload.truthy
        THEN [redis |-> r, result |-> None, exc |-> ""]
        ELSE IF parsed.exc # ""
        THEN [redis |-> r, result |-> None, exc |-> ""]
        ELSE IF session_expired \/ session_highjacked
        THEN [redis |-> deleted.redis, result |-> None, exc |-> deleted.exc]
        ELSE [redis |-> extended.redis,
              result |-> IF extended.exc = "" THEN Some(session) ELSE None,
              exc |-> extended.exc]

\* variant: the signature is unwrapped with the rolling expiration as max age
revoke_expiration(r, signed_key, t) ==
    IF signed_key # None
    THEN delete_session(r, The(signed_key), SESSION_EXPIRATION, t)
    ELSE [redis |-> r, exc |-> ""]

\* SessionService.revoke: signed_key is None (or empty), or the presented string
revoke(r, signed_key, t) ==
    IF signed_key # None
    THEN delete_session(r, The(signed_key), SESSION_MAX_LIFETIME, t)
    ELSE [redis |-> r, exc |-> ""]

\* SessionService.inspect_session_health: the three timestamps of a
\* SessionHealth, as clock values
inspect_session_health(r, session_payload, signed_key, t) ==
    LET next_exp_ms == get_session_ttl(r, signed_key, SESSION_MAX_LIFETIME, t)
        next_exp == t + next_exp_ms.ttl * TicksPerSecond
        max_age_exp_seconds ==
            session_payload.created_at + SESSION_MAX_LIFETIME * TicksPerSecond
    IN  [redis |-> next_exp_ms.redis,
         health |-> [max_age_at |-> max_age_exp_seconds,
                     expires_next |-> next_exp,
                     issued_at |-> session_payload.created_at],
         exc |-> next_exp_ms.exc]

\* SessionService.get_session_health: the SessionInfo of the session, None
\* when the key is not valid
get_session_health(r, signed_key, t) ==
    LET session_dump == get_session(r, signed_key, SESSION_MAX_LIFETIME, t)
        parsed == SessionDataParse(session_dump)
        session_payload == The(parsed.session)
        inspected == inspect_session_health(r, session_payload, signed_key, t)
    IN  IF session_dump.exc # ""
        THEN [redis |-> r, result |-> None, exc |-> session_dump.exc]
        ELSE IF ~session_dump.truthy
        THEN [redis |-> r, result |-> None, exc |-> ""]
        ELSE IF parsed.exc # ""
        THEN [redis |-> r, result |-> None, exc |-> ""]
        ELSE IF inspected.exc # ""
        THEN [redis |-> inspected.redis, result |-> None, exc |-> inspected.exc]
        ELSE [redis |-> inspected.redis,
              result |-> Some([owner |-> session_payload.identity,
                               health |-> inspected.health]),
              exc |-> ""]

\* ------------------------------------------------------ exceptions.py
\* the HTTP response the exception handlers send for an exception that
\* leaves a request handler; any other exception is a server error
HTTPResponse(exc) ==
    CASE exc = "HTTPSessionRequired" ->
            [status_code |-> 401,
             detail |-> "You must be authenticated to access this resource."]
      [] exc = "HTTPInvalidSession" ->
            [status_code |-> 403,
             detail |-> "Your session has either expired or is invalid, please log in again."]
      [] exc = "HTTPInvalidCredentials" ->
            [status_code |-> 401,
             detail |-> "Invalid username or password, please try again."]
      [] exc = "HTTPForbidden" ->
            [status_code |-> 403, detail |-> "Invalid or expired session."]
      [] exc = "RoleNotAllowed" ->
            [status_code |-> 403,
             detail |-> "You do not have the required permissions to perform this action"]
      [] OTHER -> [status_code |-> 500, detail |-> "Internal Server Error"]

\* ------------------------------------------------------ auth/depends.py
\* HTTPAuthorizationCredentials: credentials is the string after "Bearer",
\* None standing for the empty string
Bearer(credentials) == [scheme |-> "Bearer", credentials |-> credentials]

\* variant: only a missing header counts as no credential
validate_user_session_nocheck(r, session_id, client, t) ==
    LET api_key == IF The(session_id).credentials = None
                   THEN [key |-> 0, ts |-> 0, sig |-> <<>>]
                   ELSE The(The(session_id).credentials)
        key_data == load_session(r, api_key, client, t)
    IN  IF session_id = None
        THEN [redis |-> r, result |-> None, exc |-> "HTTPSessionRequired"]
        ELSE IF key_data.exc # ""
        THEN [redis |-> key_data.redis, result |-> None, exc |-> key_data.exc]
        ELSE IF key_data.result = None
        THEN [redis |-> key_data.redis, result |-> None, exc |-> "HTTPInvalidSession"]
        ELSE [redis |-> key_data.redis, result |-> key_data.result, exc |-> ""]

\* validate_user_session(session_id, client, session_service): session_id is
\* None when the request has no Authorization header
validate_user_session(r, session_id, client, t) ==
    LET api_key == The(The(session_id).credentials)
        key_data == load_session(r, api_key, client, t)
    IN  IF session_id = None \/ The(session_id).credentials = None
        THEN [redis |-> r, result |-> None, exc |-> "HTTPSessionRequired"]
        ELSE IF key_data.exc # ""
        THEN [redis |-> key_data.redis, result |-> None, exc |-> key_data.exc]
        ELSE IF key_data.result = None
        THEN [redis |-> key_data.redis, result |-> None, exc |-> "HTTPInvalidSession"]
        ELSE [redis |-> key_data.redis, result |-> key_data.result, exc |-> ""]

\* ------------------------------------------------------ auth/router.py
\* logout_user(session_auth, session_service): session_auth is None when the
\* request has no Authorization header (HTTPBearer with auto_error=False);
\* an exception of revoke is swallowed
logout_user(r, session_auth, t) ==
    LET revoked == revoke(r, The(session_auth).credentials, t)
    IN  IF session_auth = None \/ The(session_auth).credentials = None
        THEN [redis |-> r, success |-> FALSE, exc |-> "HTTPForbidden"]
        ELSE [redis |-> revoked.redis, success |-> TRUE, exc |-> ""]

\* get_session_status(session_auth, session_service)
get_session_status(r, session_auth, t) ==
    LET key_info == get_session_health(r, The(The(session_auth).credentials), t)
    IN  IF session_auth = None \/ The(session_auth).credentials = None
        THEN [redis |-> r, result |-> None, exc |-> "HTTPForbidden"]
        ELSE IF key_info.exc # ""
        THEN [redis |-> key_info.redis, result |-> None, exc |-> key_info.exc]
        ELSE IF key_info.result = None
        THEN [redis |-> key_info.redis, result |-> None, exc |-> "HTTPForbidden"]
        ELSE [redis |-> key_info.redis, result |-> key_info.result, exc |-> ""]

\* ------------------------------------------------------ rbac.py
\* Role.get_role_level
get_role_level(role) ==
    CASE role = "admin" -> 3
      [] role = "user" -> 2
      [] role = "read_only" -> 1
      [] OTHER -> -1

\* variant: __lt__ written with <=
RoleLt_le(self, other) == get_role_level(self) <= get_role_level(other)

\* Role.__lt__
RoleLt(self, other) == get_role_level(self) < get_role_level(other)

\* Role.__le__
RoleLe(self, other) == get_role_level(self) <= get_role_level(other)

\* Role.__ge__
RoleGe(self, other) == get_role_level(self) >= get_role_level(other)

\* Role.__gt__
RoleGt(self, other) == get_role_level(self) > get_role_level(other)

\* ------------------------------------------------------ users/depends.py
\* role_checker(min_role) -> role_allowed(current_user)
role_allowed(current_user, min_role) ==
    IF RoleLt(current_user.role, min_role)
    THEN [user |-> None, exc |-> "RoleNotAllowed"]
    ELSE [user |-> Some(current_user), exc |-> ""]

\* ------------------------------------------------------ users/service.py
\* UserRepository.get_by_username on the user table: the row, or None
get_by_username(table, hashes, username) ==
    IF username \in DOMAIN table
    THEN Some([username |-> username, role |-> table[username],
               password_hash |-> hashes[username]])
    ELSE None

\* UserService.authenticate(username, password): the user, None for an
\* unknown user or a wrong password; an exception of verify_hash leaves the
\* call
authenticate(table, hashes, username, password) ==
    LET user == get_by_username(table, hashes, username)
        verified == verify_hash(password, The(user).password_hash)
    IN  IF user = None THEN [user |-> None, exc |-> ""]
        ELSE IF verified.exc # "" THEN [user |-> None, exc |-> verified.exc]
        ELSE IF verified.ok # Some(TRUE) THEN [user |-> None, exc |-> ""]
        ELSE [user |-> Some([username |-> The(user).username,
                             role |-> The(user).role]),
              exc |-> ""]

\* ------------------------------------------------------ users/depends.py
\* UserService.select_username (project tree): the row of the user table, or
\* None
select_username(table, username) ==
    IF username \in DOMAIN table
    THEN [user |-> Some([username |-> username, role |-> table[username]]),
          exc |-> ""]
    ELSE [user |-> None, exc |-> ""]

\* UserService.get_username (backend tree): the row, HTTPNotFound for an
\* unknown username
get_username(table, username) ==
    IF username \in DOMAIN table
    THEN [user |-> Some([username |-> username, role |-> table[username]]),
          exc |-> ""]
    ELSE [user |-> None, exc |-> "HTTPNotFound"]

\* the two source trees, which differ in the lookup session_id_to_user calls
Trees == {"project", "backend"}

\* variant: the user is rebuilt from the identity the session record holds
session_id_to_user_captured(table, session_data, tree) ==
    [user |-> Some([username |-> session_data.identity.username,
                    role |-> session_data.identity.role]),
     exc |-> ""]

\* session_id_to_user(session_data, user_service)
session_id_to_user(table, session_data, tree) ==
    LET existing_user ==
            IF tree = "project"
            THEN select_username(table, session_data.identity.username)
            ELSE get_username(table, session_data.identity.username)
    IN  IF existing_user.exc # ""
        THEN [user |-> None, exc |-> existing_user.exc]
        ELSE IF existing_user.user = None
        THEN [user |-> None, exc |-> "UserSessionInvalid"]
        ELSE [user |-> existing_user.user, exc |-> ""]

\* get_current_user(session_data, user_service), session_data being the
\* dependency get_session_data, which is validate_user_session
get_current_user(r, table, session_id, client, tree, t) ==
    LET session_data == validate_user_session(r, session_id, client, t)
        current_user == session_id_to_user(table, The(session_data.result), tree)
    IN  IF session_data.exc # ""
        THEN [redis |-> session_data.redis, session |-> None, user |-> None,
              exc |-> session_data.exc]
        ELSE [redis |-> session_data.redis, session |-> session_data.result,
              user |-> current_user.user, exc |-> current_user.exc]

\* ------------------------------------------------------ auth/router.py
\* login_user(auth_form, session_service, client, db): the store after the
\* call, the SessionResponse (session_id, identity) and the exception that
\* leaves the handler; assign_session is create_session of the session
\* service, called with the same arguments
login_user(r, table, hashes, auth_form, client, unsigned_session_id, t) ==
    LET verified_user == authenticate(table, hashes, auth_form.username,
                                      auth_form.password)
        user == The(verified_user.user)
        created == create_session(r, unsigned_session_id, user.username,
                                  user.role, client, t)
    IN  IF verified_user.exc # ""
        THEN [redis |-> r, session_id |-> None, identity |-> None,
              session |-> None, exc |-> verified_user.exc]
        ELSE IF verified_user.user = None
        THEN [redis |-> r, session_id |-> None, identity |-> None,
              session |-> None, exc |-> "HTTPInvalidCredentials"]
        ELSE [redis |-> created.redis,
              session_id |-> Some(created.signed_key),
              identity |-> Some([username |-> user.username, role |-> user.role]),
              session |-> Some(created.session),
              exc |-> ""]

\* ------------------------------------------------------ state
VARIABLES
    now,      \* time.time(), in ticks
    redis,    \* the key-value store: key -> [value, expire_at], live keys only
    users,    \* the user table: username -> role
    issued,   \* history: per created session, the token handed to the client,
              \* the SessionData written, the clock value of the last write of
              \* the key's time to live (Elapsed once a rolling expiration
              \* has passed since), whether revoke was called with the token
              \* and whether the key was ever deleted
    calls,    \* the requests in flight, one per worker: the coroutine's
              \* position (the await it is suspended at) and its locals
    ret       \* the last call: operation, arguments, returned value,
              \* exception, and what the call did to the store

vars == <<now, redis, users, issued, calls, ret>>

\* the coroutines that run at the same time
Workers == 1 .. MaxCalls

\* a worker with no request.  pc is the await the coroutine is suspended at
\* ("get", "expire", "delete", "ttl": the redis command is sent and not yet
\* executed; "got": the reply of GET is there and the coroutine has not
\* resumed; "done": the call has returned), key the unsigned key of the
\* command, reply the reply of GET, session the SessionData parsed from it,
\* after_deletion whether the key of the token had been deleted when the
\* call started, overlapped whether another call was between its own GET and
\* its own command when the command of this one was executed, changed the
\* integer reply of EXPIRE or DEL (1 when the key was there, else 0)
Idle == [pc |-> "idle", op |-> "", token |-> None, client |-> None,
         key |-> None, reply |-> None, session |-> None, result |-> None,
         health |-> None, after_deletion |-> FALSE, overlapped |-> FALSE,
         changed |-> None]

\* a string that is no signed value at all
Garbage == [key |-> 0, ts |-> 0, sig |-> <<>>]

\* a signed token with one byte of its signature part changed
Tampered(signed) == [signed EXCEPT !.sig = <<>>]

\* the strings a client can present as signed key
PresentedKeys ==
    {issued[i].token : i \in DOMAIN issued}
        \cup {Tampered(issued[i].token) : i \in DOMAIN issued}
        \cup {Garbage}

\* the Authorization headers a client can send
PresentedHeaders ==
    {None, Some(Bearer(None))} \cup {Some(Bearer(Some(k))) : k \in PresentedKeys}

\* what a call did to the store
Effect(r, r2) ==
    IF r2 = r THEN "none"
    ELSE IF DOMAIN r2 = DOMAIN r THEN "expire"
    ELSE IF DOMAIN r \subseteq DOMAIN r2 THEN "set"
    ELSE "delete"

Call(op, token, client, result, exc, r, r2) ==
    [op |-> op, token |-> token, client |-> client, result |-> result,
     user |-> None, min_role |-> "", health |-> None, max_age |-> None,
     ttl |-> None, value |-> None, ok |-> None, credentials |-> None,
     exc |-> exc, effect |-> Effect(r, r2)]

Elapsed == 0 - 1

\* the history after a call that took the store from r to r2 at clock value t
Track(r, r2, t) ==
    [i \in DOMAIN issued |->
        LET k == session_key(i)
        IN  [issued[i] EXCEPT
                !.reset = IF k \in DOMAIN r /\ k \in DOMAIN r2
                             /\ r2[k].expire_at # r[k].expire_at
                          THEN t ELSE @,
                !.deleted = @ \/ (k \in DOMAIN r /\ k \notin DOMAIN r2)]]

DefaultUsers == [u \in Usernames |->
                    CASE u = "alice" -> "user"
                      [] u = "bob" -> "admin"
                      [] OTHER -> "read_only"]

Init ==
    /\ now = 0
    /\ calls = [p \in Workers |-> Idle]
    /\ redis = <<>>
    /\ users = DefaultUsers
    /\ issued = <<>>
    /\ ret = Call("init", None, None, None, "", <<>>, <<>>)

\* the clock advances; redis drops the keys whose time to live ran out
Tick ==
    /\ now < MaxTime
    /\ now' = now + 1
    /\ redis' = RedisPurge(redis, now + 1)
    /\ issued' = [i \in DOMAIN issued |->
                    [issued[i] EXCEPT
                        !.reset = IF @ # Elapsed
                                     /\ now + 1 - @ < SESSION_EXPIRATION * TicksPerSecond
                                  THEN @ ELSE Elapsed]]
    /\ UNCHANGED <<calls, users, ret>>

\* SessionService.create_session(username, role, client)
CreateSession(username, role, client) ==
    /\ Len(issued) < MaxSessions
    /\ now < LoginWindow
    /\ LET unsigned_session_id == Len(issued) + 1   \* secrets.token_urlsafe(32)
           out == create_session(redis, unsigned_session_id, username, role,
                                 client, now)
       IN  /\ redis' = out.redis
           /\ issued' = Append(issued, [token |-> out.signed_key,
                                        data |-> out.session,
                                        reset |-> now,
                                        revoked |-> FALSE,
                                        deleted |-> FALSE])
           /\ ret' = Call("create_session", Some(out.signed_key), None,
                          None, "", redis, out.redis)
    /\ UNCHANGED <<calls, now, users>>

\* SessionService.load_session(signed_key, inbound_client)
LoadSession(signed_key, inbound_client) ==
    /\ LET out == load_session(redis, signed_key, inbound_client, now)
       IN  /\ redis' = out.redis
           /\ issued' = Track(redis, out.redis, now)
           /\ ret' = Call("load_session", Some(signed_key), Some(inbound_client),
                          out.result, out.exc, redis, out.redis)
    /\ UNCHANGED <<calls, now, users>>

\* SessionService.revoke(signed_key)
Revoke(signed_key) ==
    /\ LET out == revoke(redis, signed_key, now)
           tracked == Track(redis, out.redis, now)
       IN  /\ redis' = out.redis
           /\ issued' = [i \in DOMAIN issued |->
                            [tracked[i] EXCEPT
                                !.revoked = @ \/ signed_key = Some(issued[i].token)]]
           /\ ret' = Call("revoke", signed_key, None, None, out.exc, redis, out.redis)
    /\ UNCHANGED <<calls, now, users>>

\* validate_user_session(session_id, client, session_service)
ValidateUserSession(session_id, client) ==
    /\ LET out == validate_user_session(redis, session_id, client, now)
       IN  /\ redis' = out.redis
           /\ issued' = Track(redis, out.redis, now)
           /\ ret' = Call("validate_user_session",
                          IF session_id = None THEN None
                          ELSE The(session_id).credentials,
                          None, out.result, out.exc, redis, out.redis)
    /\ UNCHANGED <<calls, now, users>>

\* the session service called directly
Next ==
    \/ Tick
    \/ \E u \in Logins : CreateSession(u.username, u.role, u.client)
    \/ \E k \in PresentedKeys, c \in Fingerprints : LoadSession(k, c)
    \/ \E k \in {None} \cup {Some(x) : x \in PresentedKeys} : Revoke(k)

Spec == Init /\ [][Next]_vars

\* the session service behind the authentication gate
NextGate ==
    \/ Tick
    \/ \E u \in Logins : CreateSession(u.username, u.role, u.client)
    \/ \E h \in PresentedHeaders, c \in Fingerprints : ValidateUserSession(h, c)
    \/ \E k \in {None} \cup {Some(x) : x \in PresentedKeys} : Revoke(k)

SpecGate == Init /\ [][NextGate]_vars

\* ------------------------------------------------- health introspection
\* SessionService.get_session_health(signed_key)
GetSessionHealth(signed_key) ==
    /\ LET out == get_session_health(redis, signed_key, now)
       IN  /\ redis' = out.redis
           /\ issued' = Track(redis, out.redis, now)
           /\ ret' = [Call("get_session_health", Some(signed_key), None, None,
                           out.exc, redis, out.redis)
                        EXCEPT !.health = out.result]
    /\ UNCHANGED <<calls, now, users>>

\* SessionService.inspect_session_health(session_payload, signed_key)
InspectSessionHealth(session_payload, signed_key) ==
    /\ LET out == inspect_session_health(redis, session_payload, signed_key, now)
       IN  /\ redis' = out.redis
           /\ issued' = Track(redis, out.redis, now)
           /\ ret' = [Call("inspect_session_health", Some(signed_key), None, None,
                           out.exc, redis, out.redis)
                        EXCEPT !.health = Some([owner |-> session_payload.identity,
                                                health |-> out.health])]
    /\ UNCHANGED <<calls, now, users>>

\* the session service with its health introspection
NextHealth ==
    \/ Next
    \/ \E k \in PresentedKeys : GetSessionHealth(k)
    \/ \E i \in DOMAIN issued, k \in PresentedKeys :
            InspectSessionHealth(issued[i].data, k)

SpecHealth == Init /\ [][NextHealth]_vars

\* ------------------------------------------------- store shared with others
\* another client of the redis instance overwrites the value of a session key
\* (SET key value KEEPTTL)
Corrupt(i, value) ==
    /\ session_key(i) \in DOMAIN redis
    /\ redis' = [redis EXCEPT ![session_key(i)].value = value]
    /\ ret' = Call("corrupt", None, None, None, "", redis, redis)
    /\ UNCHANGED <<calls, now, users, issued>>

NextEnv ==
    \/ NextGate
    \/ \E i \in DOMAIN issued, v \in CorruptValues : Corrupt(i, v)

SpecEnv == Init /\ [][NextEnv]_vars

\* health introspection on a store that other clients write to
NextInspect ==
    \/ Tick
    \/ \E u \in Logins : CreateSession(u.username, u.role, u.client)
    \/ \E k \in PresentedKeys : GetSessionHealth(k)
    \/ \E i \in DOMAIN issued, k \in PresentedKeys :
            InspectSessionHealth(issued[i].data, k)
    \/ \E i \in DOMAIN issued, v \in CorruptValues : Corrupt(i, v)

SpecInspect == Init /\ [][NextInspect]_vars

\* ------------------------------------------------- the store on its own
\* the times to live and the max ages a caller of the store passes, in seconds
StoreTtls == 1 .. SESSION_EXPIRATION

MaxAges == {0, SESSION_EXPIRATION, SESSION_MAX_LIFETIME}

\* SessionKeyStore.create_and_store(payload, ex)
StoreCreate(payload, ex) ==
    /\ Len(issued) < MaxSessions
    /\ now < LoginWindow
    /\ LET unsigned_session_id == Len(issued) + 1   \* secrets.token_urlsafe(32)
           out == create_and_store(redis, unsigned_session_id, payload, ex, now)
       IN  /\ redis' = out.redis
           /\ issued' = Append(issued, [token |-> out.signed_key,
                                        data |-> payload,
                                        reset |-> now,
                                        revoked |-> FALSE,
                                        deleted |-> FALSE])
           /\ ret' = Call("create_and_store", Some(out.signed_key), None,
                          None, "", redis, out.redis)
    /\ UNCHANGED <<calls, now, users>>

\* SessionKeyStore.get_session(signed_key, max_age)
StoreGet(signed_key, max_age) ==
    /\ LET out == get_session(redis, signed_key, max_age, now)
       IN  /\ ret' = [Call("get_session", Some(signed_key), None, out.doc,
                           out.exc, redis, redis)
                        EXCEPT !.max_age = Some(max_age)]
    /\ UNCHANGED <<calls, now, redis, users, issued>>

\* SessionKeyStore.delete_session(signed_key, max_age)
StoreDelete(signed_key, max_age) ==
    /\ LET out == delete_session(redis, signed_key, max_age, now)
       IN  /\ redis' = out.redis
           /\ issued' = Track(redis, out.redis, now)
           /\ ret' = [Call("delete_session", Some(signed_key), None, None,
                           out.exc, redis, out.redis)
                        EXCEPT !.max_age = Some(max_age)]
    /\ UNCHANGED <<calls, now, users>>

\* SessionKeyStore.extend_session(signed_key, ex, max_age)
StoreExtend(signed_key, ex, max_age) ==
    /\ LET out == extend_session(redis, signed_key, ex, max_age, now)
       IN  /\ redis' = out.redis
           /\ issued' = Track(redis, out.redis, now)
           /\ ret' = [Call("extend_session", Some(signed_key), None, None,
                           out.exc, redis, out.redis)
                        EXCEPT !.max_age = Some(max_age)]
    /\ UNCHANGED <<calls, now, users>>

\* SessionKeyStore.get_session_ttl(signed_session_id, max_age)
StoreTtl(signed_session_id, max_age) ==
    /\ LET out == get_session_ttl(redis, signed_session_id, max_age, now)
       IN  /\ redis' = out.redis
           /\ issued' = Track(redis, out.redis, now)
           /\ ret' = [Call("get_session_ttl", Some(signed_session_id), None, None,
                           out.exc, redis, out.redis)
                        EXCEPT !.max_age = Some(max_age), !.ttl = Some(out.ttl)]
    /\ UNCHANGED <<calls, now, users>>

\* the payloads the service hands to the store: the dumps of SessionData
Payloads == {SessionDataCreate(u.username, u.role, u.client, 0) : u \in Logins}

NextStore ==
    \/ Tick
    \/ \E payload \in Payloads, ex \in StoreTtls : StoreCreate(payload, ex)
    \/ \E k \in PresentedKeys, m \in MaxAges : StoreGet(k, m)
    \/ \E k \in PresentedKeys, m \in MaxAges : StoreDelete(k, m)
    \/ \E k \in PresentedKeys, ex \in StoreTtls, m \in MaxAges : StoreExtend(k, ex, m)
    \/ \E k \in PresentedKeys, m \in MaxAges : StoreTtl(k, m)

SpecStore == Init /\ [][NextStore]_vars

\* ------------------------------------------------- the signer on its own
\* the strings handed to sign, numbered
Values == 1 .. 2

\* the exceptions of itsdangerous that are a BadSignature: SignatureExpired
\* derives from BadTimeSignature, which derives from BadSignature
IsBadSignature(exc) == exc \in {"BadSignature", "SignatureExpired"}

\* CryptoUtils.sign(value)
Sign(value) ==
    /\ Len(issued) < MaxSessions
    /\ LET signed == sign(value, now)
       IN  /\ issued' = Append(issued, [token |-> signed,
                                        data |-> [value |-> value,
                                                  signed_at |-> now],
                                        reset |-> now,
                                        revoked |-> FALSE,
                                        deleted |-> FALSE])
           /\ ret' = Call("sign", Some(signed), None, None, "", redis, redis)
    /\ UNCHANGED <<calls, now, redis, users>>

\* CryptoUtils.unsign(value, max_age)
Unsign(signed, max_age) ==
    /\ LET out == unsign(signed, max_age, now)
       IN  ret' = [Call("unsign", Some(signed), None, None, out.exc, redis, redis)
                      EXCEPT !.max_age = Some(max_age), !.value = out.value]
    /\ UNCHANGED <<calls, now, redis, users, issued>>

NextSigner ==
    \/ Tick
    \/ \E v \in Values : Sign(v)
    \/ \E k \in PresentedKeys, m \in MaxAges : Unsign(k, m)

SpecSigner == Init /\ [][NextSigner]_vars

\* ------------------------------------------------- credential check
\* the passwords a client sends
Passwords == {"pw-alice", "pw-bob", "guess"}

\* the strings found in the password_hash column
Hashes == {HashOf("pw-alice"), HashOf("pw-bob"), TruncatedHash, UnknownHash}

\* the password_hash column of the user table; the row of carol holds a
\* string that is not a complete bcrypt hash
PasswordHashes ==
    [u \in Usernames |->
        CASE u = "alice" -> HashOf("pw-alice")
          [] u = "bob" -> HashOf("pw-bob")
          [] OTHER -> TruncatedHash]

\* CryptoUtils.verify_hash(plain_text, hashed_text)
VerifyHash(plain_text, hashed_text) ==
    /\ LET out == verify_hash(plain_text, hashed_text)
       IN  ret' = [Call("verify_hash", None, None, None, out.exc, redis, redis)
                      EXCEPT !.ok = out.ok,
                             !.credentials = Some(<<hashed_text, plain_text>>)]
    /\ UNCHANGED <<calls, now, redis, users, issued>>

\* UserService.authenticate(username, password)
Authenticate(username, password) ==
    /\ LET out == authenticate(users, PasswordHashes, username, password)
       IN  ret' = [Call("authenticate", None, None, None, out.exc, redis, redis)
                      EXCEPT !.user = out.user,
                             !.credentials = Some(<<username, password>>)]
    /\ UNCHANGED <<calls, now, redis, users, issued>>

NextLogin ==
    \/ Tick
    \/ \E p \in Passwords, h \in Hashes : VerifyHash(p, h)
    \/ \E u \in Usernames \cup {"mallory"}, p \in Passwords : Authenticate(u, p)

SpecLogin == Init /\ [][NextLogin]_vars

\* ------------------------------------------------- the login endpoint
\* the login bodies a client sends
LoginBodies ==
    {[username |-> u, password |-> p] :
        u \in Usernames \cup {"mallory"}, p \in Passwords}

\* POST /login
LoginUser(auth_form, client) ==
    /\ LET unsigned_session_id == Len(issued) + 1   \* secrets.token_urlsafe(32)
           out == login_user(redis, users, PasswordHashes, auth_form, client,
                             unsigned_session_id, now)
       IN  /\ out.session_id # None
                => (Len(issued) < MaxSessions /\ now < LoginWindow)
           /\ redis' = out.redis
           /\ issued' = IF out.session_id = None THEN issued
                        ELSE Append(issued, [token |-> The(out.session_id),
                                             data |-> The(out.session),
                                             reset |-> now,
                                             revoked |-> FALSE,
                                             deleted |-> FALSE])
           /\ ret' = [Call("login_user", out.session_id, Some(client), None,
                           out.exc, redis, out.redis)
                        EXCEPT !.user = out.identity,
                               !.credentials = Some(<<auth_form.username,
                                                      auth_form.password>>)]
    /\ UNCHANGED <<calls, now, users>>

\* logins, and the sessions they issue presented to the session service
NextLoginRoute ==
    \/ Tick
    \/ \E f \in LoginBodies, c \in {FpA, FpOs} : LoginUser(f, c)
    \/ \E k \in PresentedKeys, c \in {FpA, FpOs} : LoadSession(k, c)

SpecLoginRoute == Init /\ [][NextLoginRoute]_vars

\* ------------------------------------------------- the bearer endpoints
\* POST /logout
LogoutUser(session_auth) ==
    /\ LET out == logout_user(redis, session_auth, now)
       IN  /\ redis' = out.redis
           /\ issued' = [i \in DOMAIN issued |->
                            [Track(redis, out.redis, now)[i] EXCEPT
                                !.revoked = @ \/
                                    (/\ session_auth # None
                                     /\ The(session_auth).credentials
                                            = Some(issued[i].token))]]
           /\ ret' = [Call("logout_user",
                           IF session_auth = None THEN None
                           ELSE The(session_auth).credentials,
                           None, None, out.exc, redis, out.redis)
                        EXCEPT !.ok = Some(out.success)]
    /\ UNCHANGED <<calls, now, users>>

\* GET /session
GetSessionStatus(session_auth) ==
    /\ LET out == get_session_status(redis, session_auth, now)
       IN  /\ redis' = out.redis
           /\ issued' = Track(redis, out.redis, now)
           /\ ret' = [Call("get_session_status",
                           IF session_auth = None THEN None
                           ELSE The(session_auth).credentials,
                           None, None, out.exc, redis, out.redis)
                        EXCEPT !.health = out.result]
    /\ UNCHANGED <<calls, now, users>>

\* the operations that ask for a bearer token: the gate and the two endpoints
NextRoutes ==
    \/ Tick
    \/ \E u \in Logins : CreateSession(u.username, u.role, u.client)
    \/ \E h \in PresentedHeaders, c \in {FpA, FpIp} : ValidateUserSession(h, c)
    \/ \E h \in PresentedHeaders : LogoutUser(h)
    \/ \E h \in PresentedHeaders : GetSessionStatus(h)

SpecRoutes == Init /\ [][NextRoutes]_vars

\* GET /session as one request: the route depends on the bearer header only,
\* the fingerprint of the client that sends the request is no argument of it
SessionInfoRequest(session_auth, client) ==
    /\ LET out == get_session_status(redis, session_auth, now)
       IN  /\ redis' = out.redis
           /\ issued' = Track(redis, out.redis, now)
           /\ ret' = [Call("get_session_status",
                           IF session_auth = None THEN None
                           ELSE The(session_auth).credentials,
                           Some(client), None, out.exc, redis, out.redis)
                        EXCEPT !.health = out.result]
    /\ UNCHANGED <<calls, now, users>>

\* sessions that are used from their own and from a foreign client and asked
\* for their session info
NextSessionInfo ==
    \/ Tick
    \/ \E u \in Logins : CreateSession(u.username, u.role, u.client)
    \/ \E k \in PresentedKeys, c \in {FpA, FpIp} : LoadSession(k, c)
    \/ \E h \in PresentedHeaders, c \in {FpA, FpIp} : SessionInfoRequest(h, c)

SpecSessionInfo == Init /\ [][NextSessionInfo]_vars

\* ------------------------------------------------- role gated routes
\* a request to a route that depends on role_checker(min_role): the session
\* is validated, the user is looked up, the role is compared
RoleRequired(session_id, client, min_role, tree) ==
    /\ \E current_user \in {get_current_user(redis, users, session_id, client,
                                              tree, now)} :
        LET out == role_allowed(The(current_user.user), min_role)
        IN  /\ redis' = current_user.redis
            /\ issued' = Track(redis, current_user.redis, now)
            /\ ret' = [Call("role_required",
                            IF session_id = None THEN None
                            ELSE The(session_id).credentials,
                            Some(client), current_user.session,
                            IF current_user.exc # "" THEN current_user.exc
                            ELSE out.exc,
                            redis, current_user.redis)
                         EXCEPT !.user = IF current_user.exc # "" THEN None
                                         ELSE out.user,
                                !.min_role = min_role]
    /\ UNCHANGED <<calls, now, users>>

\* the row of a user gets another role (repository.update)
UpdateRole(username, role) ==
    /\ username \in DOMAIN users
    /\ users[username] # role
    /\ users' = [users EXCEPT ![username] = role]
    /\ ret' = Call("update_user", None, None, None, "", redis, redis)
    /\ UNCHANGED <<calls, now, redis, issued>>

\* the row of a user is deleted (repository.delete)
DeleteUser(username) ==
    /\ username \in DOMAIN users
    /\ users' = [u \in DOMAIN users \ {username} |-> users[u]]
    /\ ret' = Call("delete_user", None, None, None, "", redis, redis)
    /\ UNCHANGED <<calls, now, redis, issued>>

\* sessions used on role gated routes while the user table changes
NextRoleGate ==
    \/ Tick
    \/ \E u \in Logins : CreateSession(u.username, u.role, u.client)
    \/ \E u \in {x.username : x \in Logins}, role \in Roles : UpdateRole(u, role)
    \/ \E u \in {x.username : x \in Logins} : DeleteUser(u)
    \/ \E k \in {issued[i].token : i \in DOMAIN issued} \cup {Garbage},
          c \in {FpA, FpOs}, m \in Roles,
          tree \in Trees :
            RoleRequired(Some(Bearer(Some(k))), c, m, tree)

SpecRoleGate == Init /\ [][NextRoleGate]_vars

\* ------------------------------------------------- tampered tokens
\* the strings obtained from a signed token by changing one byte: the byte
\* lies in the value, in the timestamp or in the signature
Tamperings(signed) ==
    {[signed EXCEPT !.key = k] : k \in (0 .. MaxSessions + 1) \ {signed.key}}
        \cup {[signed EXCEPT !.ts = ts] :
                    ts \in (0 .. Seconds(MaxTime)) \ {signed.ts}}
        \cup {[signed EXCEPT !.sig = <<>>],
              [signed EXCEPT !.sig = Mac(signed.key, signed.ts + 1)]}

TamperedKeys == UNION {Tamperings(issued[i].token) : i \in DOMAIN issued}

\* the signer, the store and the service called with tampered tokens only
NextTamper ==
    \/ Tick
    \/ \E u \in Logins : CreateSession(u.username, u.role, u.client)
    \/ \E k \in TamperedKeys, m \in MaxAges : Unsign(k, m)
    \/ \E k \in TamperedKeys, m \in MaxAges : StoreGet(k, m)
    \/ \E k \in TamperedKeys, m \in MaxAges : StoreDelete(k, m)
    \/ \E k \in TamperedKeys, ex \in StoreTtls, m \in MaxAges : StoreExtend(k, ex, m)
    \/ \E k \in TamperedKeys, m \in MaxAges : StoreTtl(k, m)
    \/ \E k \in TamperedKeys, c \in {FpA, FpOs} : LoadSession(k, c)
    \/ \E k \in TamperedKeys : Revoke(Some(k))
    \/ \E k \in TamperedKeys : GetSessionHealth(k)

SpecTamper == Init /\ [][NextTamper]_vars

\* ------------------------------------------------- concurrent requests
\* the key of the token had been deleted before
DeletedBefore(signed_key) ==
    \E i \in DOMAIN issued : issued[i].token = signed_key /\ issued[i].deleted

\* a request starts on worker p: the locals of the call
Started(op, signed_key, client) ==
    [Idle EXCEPT !.op = op, !.token = Some(signed_key), !.client = client,
                 !.after_deletion = DeletedBefore(signed_key)]

\* another worker has read the store and not yet sent or had executed the
\* command that follows
Overlaps(p) ==
    \E q \in Workers \ {p} : calls[q].pc \in {"got", "expire", "delete", "ttl"}

\* the integer reply of the EXPIRE or DEL of worker p
Changed(p) ==
    Some(IF session_key(The(calls[p].key)) \in DOMAIN redis THEN 1 ELSE 0)

\* load_session up to its first await (get_session: resolve_signature, then
\* GET is sent)
LoadStart(p, signed_key, inbound_client) ==
    /\ calls[p].pc = "idle"
    /\ LET unsigned_key == resolve_signature(signed_key, SESSION_MAX_LIFETIME, now)
           call == Started("load_session", signed_key, Some(inbound_client))
       IN  calls' = [calls EXCEPT ![p] =
                IF unsigned_key.key = None THEN [call EXCEPT !.pc = "done"]
                ELSE [call EXCEPT !.pc = "get", !.key = unsigned_key.key]]
    /\ UNCHANGED <<now, redis, users, issued, ret>>

\* redis executes the GET of worker p
RedisGetStep(p) ==
    /\ calls[p].pc = "get"
    /\ calls' = [calls EXCEPT
                    ![p].pc = "got",
                    ![p].reply = RedisGet(redis, session_key(The(calls[p].key)))]
    /\ UNCHANGED <<now, redis, users, issued, ret>>

\* load_session from the reply of GET to its second await: the rest of
\* get_session, SessionData(**payload), the two checks, then delete_session
\* or extend_session up to the command they send
LoadCheck(p) ==
    /\ calls[p].pc = "got"
    /\ calls[p].op = "load_session"
    /\ LET json_payload == calls[p].reply
           loaded == json_loads(The(json_payload))
           parsed == SessionDataParse(loaded)
           session == The(parsed.session)
           session_highjacked == ~trusts_client(session, The(calls[p].client))
           session_expired == has_expired(session.created_at, SESSION_MAX_LIFETIME, now)
           unsigned_key == resolve_signature(The(calls[p].token),
                                             SESSION_MAX_LIFETIME, now)
       IN  calls' = [calls EXCEPT ![p] =
                IF json_payload = None \/ The(json_payload).text = ""
                THEN [@ EXCEPT !.pc = "done"]
                ELSE IF loaded.exc # "" \/ loaded.falsy \/ parsed.exc # ""
                THEN [@ EXCEPT !.pc = "done"]
                ELSE IF session_expired \/ session_highjacked
                THEN IF unsigned_key.key = None
                     THEN [@ EXCEPT !.pc = "done"]
                     ELSE [@ EXCEPT !.pc = "delete", !.key = unsigned_key.key]
                ELSE IF unsigned_key.key = None
                     THEN [@ EXCEPT !.pc = "done", !.session = Some(session),
                                    !.result = Some(session)]
                     ELSE [@ EXCEPT !.pc = "expire", !.key = unsigned_key.key,
                                    !.session = Some(session)]]
    /\ UNCHANGED <<now, redis, users, issued, ret>>

\* redis executes the EXPIRE of worker p; extend_session and load_session
\* return
RedisExpireStep(p) ==
    /\ calls[p].pc = "expire"
    /\ redis' = RedisExpire(redis, session_key(The(calls[p].key)),
                            SESSION_EXPIRATION, now)
    /\ issued' = Track(redis, redis', now)
    /\ calls' = [calls EXCEPT ![p].pc = "done", ![p].result = calls[p].session,
                              ![p].overlapped = Overlaps(p),
                              ![p].changed = Changed(p)]
    /\ UNCHANGED <<now, users, ret>>

\* redis executes the DEL of worker p; delete_session and its caller return
RedisDeleteStep(p) ==
    /\ calls[p].pc = "delete"
    /\ redis' = RedisDelete(redis, session_key(The(calls[p].key)))
    /\ issued' = Track(redis, redis', now)
    /\ calls' = [calls EXCEPT ![p].pc = "done", ![p].overlapped = Overlaps(p),
                              ![p].changed = Changed(p)]
    /\ UNCHANGED <<now, users, ret>>

\* revoke up to its await (delete_session: resolve_signature, then DEL is
\* sent)
RevokeStart(p, signed_key) ==
    /\ calls[p].pc = "idle"
    /\ LET unsigned_key == resolve_signature(signed_key, SESSION_MAX_LIFETIME, now)
           call == Started("revoke", signed_key, None)
       IN  calls' = [calls EXCEPT ![p] =
                IF unsigned_key.key = None THEN [call EXCEPT !.pc = "done"]
                ELSE [call EXCEPT !.pc = "delete", !.key = unsigned_key.key]]
    /\ issued' = [i \in DOMAIN issued |->
                    [issued[i] EXCEPT !.revoked = @ \/ signed_key = issued[i].token]]
    /\ UNCHANGED <<now, redis, users, ret>>

\* SessionInfo(owner, health) with the SessionHealth that
\* inspect_session_health builds from the reply next_exp_ms at clock value t
SessionInfo(session_payload, next_exp_ms, t) ==
    [owner |-> session_payload.identity,
     health |-> [max_age_at |-> session_payload.created_at
                                + SESSION_MAX_LIFETIME * TicksPerSecond,
                 expires_next |-> t + next_exp_ms * TicksPerSecond,
                 issued_at |-> session_payload.created_at]]

\* get_session_health up to its first await (get_session)
HealthStart(p, signed_key) ==
    /\ calls[p].pc = "idle"
    /\ LET unsigned_key == resolve_signature(signed_key, SESSION_MAX_LIFETIME, now)
           call == Started("get_session_health", signed_key, None)
       IN  calls' = [calls EXCEPT ![p] =
                IF unsigned_key.key = None THEN [call EXCEPT !.pc = "done"]
                ELSE [call EXCEPT !.pc = "get", !.key = unsigned_key.key]]
    /\ UNCHANGED <<now, redis, users, issued, ret>>

\* get_session_health from the reply of GET to its second await:
\* SessionData(**session_dump), then inspect_session_health and
\* get_session_ttl up to the TTL they send
HealthCheck(p) ==
    /\ calls[p].pc = "got"
    /\ calls[p].op = "get_session_health"
    /\ LET json_payload == calls[p].reply
           loaded == json_loads(The(json_payload))
           parsed == SessionDataParse(loaded)
           unsigned_key == resolve_signature(The(calls[p].token),
                                             SESSION_MAX_LIFETIME, now)
       IN  calls' = [calls EXCEPT ![p] =
                IF json_payload = None \/ The(json_payload).text = ""
                THEN [@ EXCEPT !.pc = "done"]
                ELSE IF loaded.exc # "" \/ loaded.falsy \/ parsed.exc # ""
                THEN [@ EXCEPT !.pc = "done"]
                ELSE IF unsigned_key.key = None
                THEN [@ EXCEPT !.pc = "done", !.session = parsed.session,
                               !.health = Some(SessionInfo(The(parsed.session),
                                                           0, now))]
                ELSE [@ EXCEPT !.pc = "ttl", !.key = unsigned_key.key,
                               !.session = parsed.session]]
    /\ UNCHANGED <<now, redis, users, issued, ret>>

\* redis executes the TTL of worker p; get_session_ttl, then
\* inspect_session_health (which reads the clock after the reply) and
\* get_session_health return
RedisTtlStep(p) ==
    /\ calls[p].pc = "ttl"
    /\ LET ttl == RedisTtl(redis, session_key(The(calls[p].key)), now)
           next_exp_ms == IF ttl >= 0 THEN ttl ELSE 0
       IN  calls' = [calls EXCEPT
                ![p].pc = "done",
                ![p].overlapped = Overlaps(p),
                ![p].health = Some(SessionInfo(The(calls[p].session),
                                               next_exp_ms, now))]
    /\ UNCHANGED <<now, redis, users, issued, ret>>

\* the response is sent; worker p takes the next request
Return(p) ==
    /\ calls[p].pc = "done"
    /\ calls' = [calls EXCEPT ![p] = Idle]
    /\ UNCHANGED <<now, redis, users, issued, ret>>

\* the tokens the clients hold
Tokens == {issued[i].token : i \in DOMAIN issued}

\* load_session calls served at the same time
NextConcurrent ==
    \/ Tick
    \/ \E u \in Logins : CreateSession(u.username, u.role, u.client)
    \/ \E p \in Workers, k \in Tokens, c \in {FpA, FpOs} : LoadStart(p, k, c)
    \/ \E p \in Workers : RedisGetStep(p)
    \/ \E p \in Workers : LoadCheck(p)
    \/ \E p \in Workers : RedisExpireStep(p)
    \/ \E p \in Workers : RedisDeleteStep(p)
    \/ \E p \in Workers : Return(p)

SpecConcurrent == Init /\ [][NextConcurrent]_vars

\* load_session, revoke and get_session_health served at the same time
NextRace ==
    \/ NextConcurrent
    \/ \E p \in Workers, k \in Tokens : RevokeStart(p, k)
    \/ \E p \in Workers, k \in Tokens : HealthStart(p, k)
    \/ \E p \in Workers : HealthCheck(p)
    \/ \E p \in Workers : RedisTtlStep(p)

SpecRace == Init /\ [][NextRace]_vars

\* ------------------------------------------------- several sessions
\* the logins of the second session: the user of the first from the same
\* client, the same user from another client, another user
SecondLogins ==
    {[username |-> "alice", role |-> "user", client |-> FpA],
     [username |-> "alice", role |-> "user", client |-> FpIp],
     [username |-> "bob", role |-> "admin", client |-> FpOs]}

\* the entry of the history for a session just created
Issued(created, t) ==
    [token |-> created.signed_key, data |-> created.session, reset |-> t,
     revoked |-> FALSE, deleted |-> FALSE]

\* alice has logged in, and then a second session was created, both at clock
\* value 0
InitIsolation ==
    \E u \in SecondLogins :
        LET first == create_session(<<>>, 1, "alice", "user", FpA, 0)
            second == create_session(first.redis, 2, u.username, u.role,
                                     u.client, 0)
        IN  /\ now = 0
            /\ calls = [p \in Workers |-> Idle]
            /\ redis = second.redis
            /\ users = DefaultUsers
            /\ issued = <<Issued(first, 0), Issued(second, 0)>>
            /\ ret = Call("create_session", Some(second.signed_key), None,
                          None, "", first.redis, second.redis)

\* the session service serving the two sessions
NextIsolation ==
    \/ Tick
    \/ \E k \in Tokens \cup {Garbage}, c \in {FpA, FpIp} : LoadSession(k, c)
    \/ \E k \in Tokens \cup {Garbage} : Revoke(Some(k))
    \/ \E k \in Tokens : GetSessionHealth(k)
    \/ \E i \in DOMAIN issued : InspectSessionHealth(issued[i].data, issued[i].token)

SpecIsolation == InitIsolation /\ [][NextIsolation]_vars

\* ------------------------------------------------- role gate on its own
InitRole ==
    /\ now = 0
    /\ calls = [p \in Workers |-> Idle]
    /\ redis = <<>>
    /\ users \in [Usernames -> Roles]
    /\ issued = <<>>
    /\ ret = Call("init", None, None, None, "", <<>>, <<>>)

\* role_allowed(current_user) of role_checker(min_role), current_user being
\* the row of the user table that get_current_user resolved
RoleAllowed(username, min_role) ==
    /\ LET current_user == [username |-> username, role |-> users[username]]
           out == role_allowed(current_user, min_role)
       IN  ret' = [Call("role_allowed", None, None, None, out.exc, redis, redis)
                      EXCEPT !.user = out.user, !.min_role = min_role]
    /\ UNCHANGED <<calls, now, redis, users, issued>>

NextRole == \E u \in Usernames, m \in Roles : RoleAllowed(u, m)

SpecRole == InitRole /\ [][NextRole]_vars

\* ------------------------------------------------- fingerprints on their own
IpAddresses == {"1.2.3.4", "5.6.7.8"}

UserAgentStrings == {"Chrome/Mac", "Chrome/Mac; bot"}

Devices == {"Mac", "iPhone"}

OperatingSystems == {"macOS", "Windows"}

Browsers == {"Chrome", "Firefox"}

\* every UserAgentInfo over these field values
UserAgentInfos ==
    {UserAgentInfo(raw, device, os, browser, bot) :
        raw \in UserAgentStrings, device \in Devices, os \in OperatingSystems,
        browser \in Browsers, bot \in BOOLEAN}

\* every ClientFingerprint over these field values
ClientFingerprints ==
    {ClientFingerprint(ip, ua) : ip \in IpAddresses, ua \in UserAgentInfos}

\* two fingerprints are given: self in ret.client, other in ret.value
InitFingerprint ==
    /\ now = 0
    /\ calls = [p \in Workers |-> Idle]
    /\ redis = <<>>
    /\ users = DefaultUsers
    /\ issued = <<>>
    /\ \E a \in ClientFingerprints, b \in ClientFingerprints :
            ret = [Call("init", None, Some(a), None, "", <<>>, <<>>)
                     EXCEPT !.value = Some(b)]

\* self.equals(other) / self == other of ClientFingerprint
Equals ==
    /\ ret' = [ret EXCEPT
                  !.op = "equals",
                  !.ok = Some(FingerprintEquals(The(ret.client), The(ret.value)))]
    /\ UNCHANGED <<calls, now, redis, users, issued>>

\* self == other of the two UserAgentInfo
UserAgentInfoEq ==
    /\ ret' = [ret EXCEPT
                  !.op = "__eq__",
                  !.ok = Some(UserAgentEq(The(ret.client).user_agent,
                                          The(ret.value).user_agent))]
    /\ UNCHANGED <<calls, now, redis, users, issued>>

NextFingerprint ==
    \/ Equals
    \/ UserAgentInfoEq

SpecFingerprint == InitFingerprint /\ [][NextFingerprint]_vars

\* =================================================================
\* Properties
\* =================================================================
\* the trust comparison as the specification words it: same IP, device, OS
\* and browser
SameClient(a, b) ==
    /\ a.ip_address = b.ip_address
    /\ a.user_agent.device = b.user_agent.device
    /\ a.user_agent.os = b.user_agent.os
    /\ a.user_agent.browser = b.user_agent.browser

\* the key of session i is in the store
Stored(i) == session_key(i) \in DOMAIN redis

\* the age of the record of session i, in ticks
Age(i) == now - issued[i].data.created_at

RollingTicks == SESSION_EXPIRATION * TicksPerSecond

LifetimeTicks == SESSION_MAX_LIFETIME * TicksPerSecond

\* the signature of a token still unwraps: it is genuine and not older, in
\* whole seconds, than the max lifetime
Unwraps(token) ==
    Verifies(token) /\ Seconds(now) - token.ts <= SESSION_MAX_LIFETIME

\* C1 as stated: after create_session(I, F) returned T, load_session(T, F')
\* with F' equal to F, with no revoke of T in between, less than a rolling
\* expiration after the last reset of the key's time to live and less than
\* the max lifetime after creation, returns the record with identity I and
\* the created_at set at creation.
C1_LoadAfterCreate_Original ==
    [][\A i \in DOMAIN issued, c \in Fingerprints :
        ( /\ SameClient(c, issued[i].data.client)
          /\ ~issued[i].revoked
          /\ issued[i].reset # Elapsed
          /\ Age(i) < LifetimeTicks
          /\ LoadSession(issued[i].token, c) )
        => /\ ret'.result # None
           /\ The(ret'.result).identity = issued[i].data.identity
           /\ The(ret'.result).created_at = issued[i].data.created_at]_vars

\* C1 amended: the same, provided also that no load_session in between
\* deleted the key (a call from a fingerprint that differs from F does).
C1_LoadAfterCreate ==
    [][\A i \in DOMAIN issued, c \in Fingerprints :
        ( /\ SameClient(c, issued[i].data.client)
          /\ ~issued[i].revoked
          /\ ~issued[i].deleted
          /\ issued[i].reset # Elapsed
          /\ Age(i) < LifetimeTicks
          /\ LoadSession(issued[i].token, c) )
        => /\ ret'.result # None
           /\ The(ret'.result).identity = issued[i].data.identity
           /\ The(ret'.result).created_at = issued[i].data.created_at]_vars

\* a load_session from a client with another raw user-agent string, later
\* than one rolling expiration after creation, returned the record
C1_Witness ==
    /\ ret.op = "load_session"
    /\ \E i \in DOMAIN issued :
        /\ ret.token = Some(issued[i].token)
        /\ ret.client # Some(issued[i].data.client)
        /\ ret.result = Some(issued[i].data)
        /\ Age(i) > RollingTicks

\* C2, expiry ceiling: every load_session of the token of a session, from any
\* fingerprint, at a time later than created_at + max lifetime returns None,
\* whatever extensions of the time to live went before.
C2_ExpiryCeiling ==
    [][\A i \in DOMAIN issued, c \in Fingerprints :
        (Age(i) > LifetimeTicks /\ LoadSession(issued[i].token, c))
        => ret'.result = None]_vars

\* a load_session from the session's own client found the record, kept in
\* the store by extensions, after the max lifetime and rejected it
C2_Witness ==
    /\ ret.op = "load_session"
    /\ ret.result = None
    /\ ret.effect = "delete"
    /\ \E i \in DOMAIN issued :
        /\ ret.token = Some(issued[i].token)
        /\ SameClient(The(ret.client), issued[i].data.client)
        /\ Age(i) > LifetimeTicks

\* C3 as stated, hijack detection: load_session(T, B) for a token T whose
\* stored record was created with a fingerprint that differs from B in IP,
\* device, OS or browser returns None and leaves the store without T's key.
C3_HijackDetection_Original ==
    [][\A i \in DOMAIN issued, c \in Fingerprints :
        ( /\ Stored(i)
          /\ ~SameClient(c, issued[i].data.client)
          /\ LoadSession(issued[i].token, c) )
        => /\ ret'.result = None
           /\ session_key(i) \notin DOMAIN redis']_vars

\* C3 amended: the same for a token whose signature still unwraps within the
\* max lifetime; for an older token the call returns None and the key stays
\* until its time to live runs out.
C3_HijackDetection ==
    [][\A i \in DOMAIN issued, c \in Fingerprints :
        ( /\ Stored(i)
          /\ ~SameClient(c, issued[i].data.client)
          /\ LoadSession(issued[i].token, c) )
        => /\ ret'.result = None
           /\ Unwraps(issued[i].token) => session_key(i) \notin DOMAIN redis']_vars

\* a load_session from a foreign fingerprint deleted the key
C3_Witness ==
    /\ ret.op = "load_session"
    /\ ret.result = None
    /\ ret.effect = "delete"
    /\ \E i \in DOMAIN issued :
        /\ ret.token = Some(issued[i].token)
        /\ ~SameClient(The(ret.client), issued[i].data.client)
        /\ Age(i) < LifetimeTicks
        /\ ~Stored(i)

\* C4, sliding renewal: every load_session that returns a record leaves the
\* key in the store with a time to live of one full rolling expiration counted
\* from that call, however long ago the session was created or last read.
C4_SlidingRenewal ==
    [][\A k \in PresentedKeys, c \in Fingerprints :
        (LoadSession(k, c) /\ ret'.result # None)
        => /\ session_key(k.key) \in DOMAIN redis'
           /\ redis'[session_key(k.key)].expire_at = now + RollingTicks]_vars

\* a successful load_session, later than one rolling expiration after
\* creation (so not the first renewal), left the full window
C4_Witness ==
    /\ ret.op = "load_session"
    /\ ret.result # None
    /\ ret.effect = "expire"
    /\ \E i \in DOMAIN issued :
        /\ ret.token = Some(issued[i].token)
        /\ Age(i) > RollingTicks
        /\ Stored(i)
        /\ redis[session_key(i)].expire_at = now + RollingTicks

\* C5 as stated, implicit destruction: a load_session with a token whose
\* record is in the store and older than the max lifetime deletes the key and
\* returns None.
C5_DestroyOnMaxLifetime_Original ==
    [][\A i \in DOMAIN issued, c \in Fingerprints :
        (Stored(i) /\ Age(i) > LifetimeTicks /\ LoadSession(issued[i].token, c))
        => /\ ret'.result = None
           /\ session_key(i) \notin DOMAIN redis']_vars

\* C5 amended: the call returns None, and deletes the key when the token's
\* signature still unwraps within the max lifetime; for an older token the
\* key stays until its time to live runs out.
C5_DestroyOnMaxLifetime ==
    [][\A i \in DOMAIN issued, c \in Fingerprints :
        (Stored(i) /\ Age(i) > LifetimeTicks /\ LoadSession(issued[i].token, c))
        => /\ ret'.result = None
           /\ Unwraps(issued[i].token) => session_key(i) \notin DOMAIN redis']_vars

\* a load_session from the session's own client deleted a record older than
\* the max lifetime
C5_Witness ==
    /\ ret.op = "load_session"
    /\ ret.effect = "delete"
    /\ \E i \in DOMAIN issued :
        /\ ret.token = Some(issued[i].token)
        /\ ret.client = Some(issued[i].data.client)
        /\ Age(i) > LifetimeTicks
        /\ issued[i].deleted
        /\ ~Stored(i)

\* the keys a presented string stands for: the key of the session it was
\* issued for; none for a string that is not a signed token
KeysOf(signed_key) ==
    {session_key(i) : i \in {j \in DOMAIN issued : issued[j].token = signed_key}}

\* a second revoke of the same string on store r neither raises nor changes r
SecondRevokeIsNoop(signed_key, r) ==
    revoke(r, signed_key, now) = [redis |-> r, exc |-> ""]

\* C6 as stated, idempotent revoke: for every presented string revoke does
\* not raise and leaves the store without the key of that token; a second
\* revoke does not raise either and leaves the store as it is.
C6_IdempotentRevoke_Original ==
    [][\A k \in {None} \cup {Some(x) : x \in PresentedKeys} :
        Revoke(k)
        => /\ ret'.exc = ""
           /\ \A x \in k : KeysOf(x) \cap DOMAIN redis' = {}
           /\ SecondRevokeIsNoop(k, redis')]_vars

\* C6 amended: revoke never raises and a second revoke changes nothing; it
\* leaves the store without the key of the token when the token's signature
\* still unwraps within the max lifetime, and leaves the store unchanged
\* otherwise.
C6_IdempotentRevoke ==
    [][\A k \in {None} \cup {Some(x) : x \in PresentedKeys} :
        Revoke(k)
        => /\ ret'.exc = ""
           /\ \A x \in k : IF Unwraps(x)
                           THEN KeysOf(x) \cap DOMAIN redis' = {}
                           ELSE redis' = redis
           /\ SecondRevokeIsNoop(k, redis')]_vars

\* a revoke of a token whose key was already deleted by an earlier revoke
C6_Witness ==
    /\ ret.op = "revoke"
    /\ ret.exc = ""
    /\ ret.effect = "none"
    /\ \E i \in DOMAIN issued :
        /\ ret.token = Some(issued[i].token)
        /\ issued[i].revoked
        /\ issued[i].deleted
        /\ issued[i].reset # Elapsed
        /\ ~Stored(i)

\* C7, idle timeout: once a rolling expiration has passed since the last
\* reset of the key's time to live (creation or the last successful
\* load_session) the key is gone from the store, and every load_session with
\* the token returns None.
C7_IdleTimeout ==
    [][/\ \A i \in DOMAIN issued' :
            issued'[i].reset = Elapsed => session_key(i) \notin DOMAIN redis'
       /\ \A i \in DOMAIN issued, c \in Fingerprints :
            (issued[i].reset = Elapsed /\ LoadSession(issued[i].token, c))
            => ret'.result = None]_vars

\* a load_session from the session's own client was rejected although the
\* record is younger than the max lifetime, the signature unwraps and the
\* key was never deleted
C7_Witness ==
    /\ ret.op = "load_session"
    /\ ret.result = None
    /\ \E i \in DOMAIN issued :
        /\ ret.token = Some(issued[i].token)
        /\ ret.client = Some(issued[i].data.client)
        /\ issued[i].reset = Elapsed
        /\ ~issued[i].deleted
        /\ ~issued[i].revoked
        /\ Age(i) < LifetimeTicks
        /\ Unwraps(issued[i].token)

\* a credential is presented: the header is there and its credentials are
\* not empty
Presented(session_id) == session_id # None /\ The(session_id).credentials # None

\* C8, authentication gate: validate_user_session raises HTTPSessionRequired
\* exactly when no credential is presented (missing header or empty
\* credentials), raises HTTPInvalidSession exactly when a credential is
\* presented and load_session returns None, and otherwise returns the record
\* load_session returned, with the effect of load_session on the store; there
\* is no other outcome.
C8_GateOutcomes ==
    [][\A h \in PresentedHeaders, c \in Fingerprints :
        ValidateUserSession(h, c)
        => LET loaded == load_session(redis, The(The(h).credentials), c, now)
           IN  /\ ret'.exc \in {"", "HTTPSessionRequired", "HTTPInvalidSession"}
               /\ ret'.exc = "HTTPSessionRequired" <=> ~Presented(h)
               /\ ret'.exc = "HTTPInvalidSession"
                    <=> (Presented(h) /\ loaded.result = None)
               /\ ret'.exc = ""
                    <=> (Presented(h) /\ loaded.result # None)
               /\ ret'.exc = "" => ret'.result = loaded.result
               /\ ret'.exc # "" => ret'.result = None
               /\ Presented(h) => redis' = loaded.redis
               /\ ~Presented(h) => redis' = redis]_vars

\* the gate rejected the genuine token of a session whose key is gone
C8_Witness ==
    /\ ret.op = "validate_user_session"
    /\ ret.exc = "HTTPInvalidSession"
    /\ HTTPResponse(ret.exc).status_code = 403
    /\ \E i \in DOMAIN issued :
        /\ ret.token = Some(issued[i].token)
        /\ ~Stored(i)

\* the reasons for which a presented token fails
BadSignature(k) == ~Verifies(k)

ExpiredSignature(k) == Verifies(k) /\ Seconds(now) - k.ts > SESSION_MAX_LIFETIME

\* never stored, deleted, or run out of its time to live
UnknownKey(k) == session_key(k.key) \notin DOMAIN redis

CorruptRecord(k) ==
    /\ session_key(k.key) \in DOMAIN redis
    /\ redis[session_key(k.key)].value \in CorruptValues

LifetimeExpired(k) ==
    \E i \in DOMAIN issued :
        /\ k = issued[i].token
        /\ Stored(i)
        /\ redis[session_key(i)].value = json_dumps(issued[i].data)
        /\ Age(i) > LifetimeTicks

FingerprintMismatch(k, c) ==
    \E i \in DOMAIN issued :
        /\ k = issued[i].token
        /\ Stored(i)
        /\ redis[session_key(i)].value = json_dumps(issued[i].data)
        /\ ~SameClient(c, issued[i].data.client)

Fails(k, c) ==
    \/ BadSignature(k)
    \/ ExpiredSignature(k)
    \/ UnknownKey(k)
    \/ CorruptRecord(k)
    \/ LifetimeExpired(k)
    \/ FingerprintMismatch(k, c)

\* C9, failure-reason indistinguishability: whatever the reason a presented
\* token fails for (bad or expired signature, unknown or store-expired key,
\* corrupt record, record older than the max lifetime, fingerprint mismatch),
\* load_session returns None without raising and the gate raises
\* HTTPInvalidSession, with one status and one body text.
C9_FailureIndistinguishable ==
    \A k \in PresentedKeys, c \in Fingerprints :
        Fails(k, c)
        => LET loaded == load_session(redis, k, c, now)
               gate == validate_user_session(redis, Some(Bearer(Some(k))), c, now)
           IN  /\ loaded.result = None
               /\ loaded.exc = ""
               /\ gate.result = None
               /\ gate.exc = "HTTPInvalidSession"
               /\ HTTPResponse(gate.exc) =
                    [status_code |-> 403,
                     detail |-> "Your session has either expired or is invalid, please log in again."]

\* the gate rejected a genuine token, presented within its lifetime, whose
\* record in the store is corrupt
C9_Witness ==
    /\ ret.op = "validate_user_session"
    /\ ret.exc = "HTTPInvalidSession"
    /\ \E i \in DOMAIN issued :
        /\ ret.token = Some(issued[i].token)
        /\ Unwraps(issued[i].token)
        /\ CorruptRecord(issued[i].token)
        /\ redis[session_key(i)].value = JsonOther

\* the order read_only < user < admin
RoleOrder == <<"read_only", "user", "admin">>

Rank(role) == CHOOSE n \in DOMAIN RoleOrder : RoleOrder[n] = role

\* C10, role gate: the comparisons of Role are those of the total order
\* read_only < user < admin, and role_allowed raises RoleNotAllowed exactly
\* when the current user's role is below min_role and returns the current
\* user otherwise.
C10_RoleGate ==
    [][/\ \A a \in Roles, b \in Roles :
            /\ RoleLt(a, b) <=> Rank(a) < Rank(b)
            /\ RoleLe(a, b) <=> Rank(a) <= Rank(b)
            /\ RoleGt(a, b) <=> Rank(a) > Rank(b)
            /\ RoleGe(a, b) <=> Rank(a) >= Rank(b)
            /\ RoleLt(a, b) \/ RoleLt(b, a) \/ a = b
       /\ \A u \in Usernames, m \in Roles :
            RoleAllowed(u, m)
            => /\ ret'.exc = "RoleNotAllowed" <=> Rank(users[u]) < Rank(m)
               /\ ret'.exc = ""
                    <=> ret'.user = Some([username |-> u, role |-> users[u]])
               /\ ret'.exc \in {"", "RoleNotAllowed"}]_vars

\* a user with the role user passed a gate that asks for user
C10_Witness ==
    /\ ret.op = "role_allowed"
    /\ ret.exc = ""
    /\ ret.min_role = "user"
    /\ \E u \in Usernames : ret.user = Some([username |-> u, role |-> "user"])

\* C11, create_session: the call adds exactly one key to the store, a key
\* that no earlier session used, leaves every other key as it was, stores
\* under it the identity and fingerprint given and created_at = the clock
\* value of the call, with a time to live of the rolling expiration (not the
\* max lifetime), and returns a signed token that unwraps to that key.
C11_CreateSession ==
    [][\A u \in Logins :
        CreateSession(u.username, u.role, u.client)
        => LET added == DOMAIN redis' \ DOMAIN redis
               token == The(ret'.token)
               unsigned == unsign(token, SESSION_MAX_LIFETIME, now)
               k == session_key(The(unsigned.value))
           IN  /\ Cardinality(added) = 1
               /\ \A x \in DOMAIN redis : x \in DOMAIN redis' /\ redis'[x] = redis[x]
               /\ unsigned.exc = "" /\ unsigned.value # None
               /\ added = {k}
               /\ \A i \in DOMAIN issued : session_key(i) # k
               /\ redis'[k].value =
                    json_dumps([identity |-> [username |-> u.username,
                                              role |-> u.role],
                                created_at |-> now,
                                client |-> u.client])
               /\ redis'[k].expire_at = now + RollingTicks
               /\ SESSION_EXPIRATION < SESSION_MAX_LIFETIME
                    => redis'[k].expire_at # now + LifetimeTicks]_vars

\* create_session has just stored the record of bob, an admin
C11_Witness ==
    /\ ret.op = "create_session"
    /\ \E i \in DOMAIN issued :
        /\ ret.token = Some(issued[i].token)
        /\ Stored(i)
        /\ issued[i].data.identity = [username |-> "bob", role |-> "admin"]
        /\ issued[i].data.created_at = now
        /\ redis[session_key(i)].expire_at = now + RollingTicks

\* the operations of the session service that work on an existing session
SessionOps ==
    {"load_session", "revoke", "get_session_health", "inspect_session_health"}

\* C12, record immutability: whenever the key of a session is in the store
\* its value is the payload create_session wrote (identity, created_at,
\* client fingerprint), and a step of load_session, revoke,
\* get_session_health or inspect_session_health adds no key and changes the
\* value of none: it changes a key's time to live or its existence only.
C12_RecordImmutable ==
    [][/\ \A i \in DOMAIN issued' :
            session_key(i) \in DOMAIN redis'
            => redis'[session_key(i)].value = json_dumps(issued'[i].data)
       /\ (ret' # ret /\ ret'.op \in SessionOps)
            => \A k \in DOMAIN redis' :
                 k \in DOMAIN redis /\ redis'[k].value = redis[k].value]_vars

\* the record was read by get_session_health after a load_session had reset
\* its time to live, and is stored as create_session wrote it
C12_Witness ==
    /\ ret.op = "get_session_health"
    /\ ret.health # None
    /\ \E i \in DOMAIN issued :
        /\ ret.token = Some(issued[i].token)
        /\ Stored(i)
        /\ issued[i].reset # Elapsed
        /\ issued[i].reset > issued[i].data.created_at
        /\ redis[session_key(i)].value = json_dumps(issued[i].data)
        /\ The(ret.health).health.issued_at = issued[i].data.created_at

\* C13, health introspection is a pure read: get_session_health and
\* inspect_session_health leave the store as it is (no key added or deleted,
\* no value changed, no time to live reset), for every presented string and
\* every content of the store.
C13_HealthPureRead ==
    [][/\ \A k \in PresentedKeys : GetSessionHealth(k) => redis' = redis
       /\ \A i \in DOMAIN issued, k \in PresentedKeys :
            InspectSessionHealth(issued[i].data, k) => redis' = redis]_vars

\* get_session_health returned the health of a session whose key has less
\* than the rolling expiration left, and the key has it still
C13_Witness ==
    /\ ret.op = "get_session_health"
    /\ ret.effect = "none"
    /\ ret.health # None
    /\ \E i \in DOMAIN issued :
        /\ ret.token = Some(issued[i].token)
        /\ Stored(i)
        /\ redis[session_key(i)].expire_at < now + RollingTicks
        /\ The(ret.health).health.expires_next < now + RollingTicks

AbsentKey(k) == session_key(k.key) \notin DOMAIN redis

\* C15, store operations on an absent key: for a key that is missing or has
\* expired, delete_session and extend_session leave the store unchanged
\* (extend does not create the key), get_session returns None and
\* get_session_ttl returns 0; none of them raises.
C15_AbsentKeyNoop ==
    [][\A k \in PresentedKeys, m \in MaxAges :
        AbsentKey(k)
        => /\ StoreDelete(k, m) => (redis' = redis /\ ret'.exc = "")
           /\ \A ex \in StoreTtls :
                StoreExtend(k, ex, m) => (redis' = redis /\ ret'.exc = "")
           /\ StoreGet(k, m) => (ret'.result = None /\ ret'.exc = "")
           /\ StoreTtl(k, m)
                => (ret'.ttl = Some(0) /\ redis' = redis /\ ret'.exc = "")]_vars

\* get_session_ttl was called with a token whose signature unwraps and whose
\* key ran out of its time to live (it was never deleted)
C15_Witness ==
    /\ ret.op = "get_session_ttl"
    /\ ret.ttl = Some(0)
    /\ ret.exc = ""
    /\ \E i \in DOMAIN issued :
        /\ ret.token = Some(issued[i].token)
        /\ ret.max_age = Some(SESSION_MAX_LIFETIME)
        /\ Unwraps(issued[i].token)
        /\ ~issued[i].deleted
        /\ ~Stored(i)

\* C16, unwrap failure equals absent: for every presented string whose
\* signature does not unwrap under the caller's max age (bad signature, not a
\* signed value, or older than max age), get_session returns None,
\* get_session_ttl returns 0, delete_session and extend_session leave the
\* store unchanged even when the key is in it, and none of them raises.
C16_UnwrapFailureAbsent ==
    [][\A k \in PresentedKeys, m \in MaxAges :
        unsign(k, m, now).exc # ""
        => /\ StoreGet(k, m) => (ret'.result = None /\ ret'.exc = "")
           /\ StoreTtl(k, m)
                => (ret'.ttl = Some(0) /\ redis' = redis /\ ret'.exc = "")
           /\ StoreDelete(k, m) => (redis' = redis /\ ret'.exc = "")
           /\ \A ex \in StoreTtls :
                StoreExtend(k, ex, m) => (redis' = redis /\ ret'.exc = "")]_vars

\* delete_session was called with a genuine token older than the max age
\* passed, and left its key in the store
C16_Witness ==
    /\ ret.op = "delete_session"
    /\ ret.effect = "none"
    /\ ret.exc = ""
    /\ \E i \in DOMAIN issued :
        /\ ret.token = Some(issued[i].token)
        /\ ret.max_age = Some(0)
        /\ unsign(issued[i].token, 0, now).exc = "SignatureExpired"
        /\ Stored(i)

\* C17 as stated, signer round trip with age bound: unsign(sign(v), max_age)
\* at time now, for a value signed at time ts, returns v exactly when
\* now - ts <= max_age, and otherwise fails with the failure kind of a bad
\* signature.
C17_SignerRoundTrip_Original ==
    [][\A i \in DOMAIN issued, m \in MaxAges :
        Unsign(issued[i].token, m)
        => IF now - issued[i].data.signed_at <= m * TicksPerSecond
           THEN ret'.value = Some(issued[i].data.value) /\ ret'.exc = ""
           ELSE ret'.value = None /\ IsBadSignature(ret'.exc)]_vars

\* C17 amended: the same with the age counted in whole seconds, as the
\* signer counts it: unsign returns v exactly when
\* int(now) - int(ts) <= max_age, so a value is still returned up to one
\* second (less one clock step) after max_age has passed; otherwise it fails
\* with an exception that is a BadSignature, which resolve_signature turns
\* into None as it does every other failure.
C17_SignerRoundTrip ==
    [][\A i \in DOMAIN issued, m \in MaxAges :
        Unsign(issued[i].token, m)
        => IF Seconds(now) - Seconds(issued[i].data.signed_at) <= m
           THEN ret'.value = Some(issued[i].data.value) /\ ret'.exc = ""
           ELSE /\ ret'.value = None
                /\ IsBadSignature(ret'.exc)
                /\ resolve_signature(issued[i].token, m, now)
                     = resolve_signature(Tampered(issued[i].token), m, now)]_vars

\* unsign returned the value signed exactly max_age whole seconds before
C17_Witness ==
    /\ ret.op = "unsign"
    /\ ret.exc = ""
    /\ \E i \in DOMAIN issued :
        /\ ret.token = Some(issued[i].token)
        /\ ret.value = Some(issued[i].data.value)
        /\ ret.max_age = Some(SESSION_EXPIRATION)
        /\ Seconds(now) - Seconds(issued[i].data.signed_at) = SESSION_EXPIRATION

\* C18, verify_hash never raises: for every plain text and every stored hash
\* string, a malformed or unrecognised one included, verify_hash returns a
\* boolean, and False for a malformed hash; so authenticate returns no user,
\* and does not fail, for a user whose stored hash is malformed.
C18_VerifyNeverRaises ==
    [][/\ \A p \in Passwords, h \in Hashes :
            VerifyHash(p, h)
            => /\ ret'.exc = ""
               /\ ret'.ok \in {Some(TRUE), Some(FALSE)}
               /\ ~h.wellformed => ret'.ok = Some(FALSE)
       /\ \A u \in Usernames \cup {"mallory"}, p \in Passwords :
            Authenticate(u, p)
            => /\ ret'.exc = ""
               /\ (u \in Usernames /\ ~PasswordHashes[u].wellformed)
                    => ret'.user = None]_vars

\* C19, no credential gives SessionRequired: the authentication gate, the
\* logout endpoint and the session-info endpoint answer a request that
\* presents no credential (no Authorization header, or empty credentials)
\* with HTTP 401, never with 403.
C19_NoCredentialIs401 ==
    [][\A h \in PresentedHeaders :
        ~Presented(h)
        => /\ \A c \in {FpA, FpIp} :
                ValidateUserSession(h, c)
                => HTTPResponse(ret'.exc).status_code = 401
           /\ LogoutUser(h) => HTTPResponse(ret'.exc).status_code = 401
           /\ GetSessionStatus(h) => HTTPResponse(ret'.exc).status_code = 401]_vars

Intact(i) ==
    Stored(i) /\ redis[session_key(i)].value = json_dumps(issued[i].data)

\* C21 as stated, absolute-expiry boundary: load_session of a token whose
\* signature unwraps and whose record is in the store, from a matching
\* fingerprint, rejects the record (and deletes the key) exactly when
\* now - created_at > max lifetime; a record whose age is exactly the max
\* lifetime is returned and the key's time to live is reset.
C21_ExpiryBoundary_Original ==
    [][\A i \in DOMAIN issued, c \in Fingerprints :
        ( /\ Intact(i)
          /\ Unwraps(issued[i].token)
          /\ SameClient(c, issued[i].data.client)
          /\ LoadSession(issued[i].token, c) )
        => IF Age(i) > LifetimeTicks
           THEN ret'.result = None /\ session_key(i) \notin DOMAIN redis'
           ELSE /\ ret'.result = Some(issued[i].data)
                /\ session_key(i) \in DOMAIN redis'
                /\ redis'[session_key(i)].expire_at = now + RollingTicks]_vars

\* C21 amended: the record is rejected, and its key deleted, exactly when
\* now - created_at >= max lifetime: a record whose age is exactly the max
\* lifetime is rejected too; a younger one is returned and the key's time to
\* live is reset to the rolling expiration.
C21_ExpiryBoundary ==
    [][\A i \in DOMAIN issued, c \in Fingerprints :
        ( /\ Intact(i)
          /\ Unwraps(issued[i].token)
          /\ SameClient(c, issued[i].data.client)
          /\ LoadSession(issued[i].token, c) )
        => IF Age(i) >= LifetimeTicks
           THEN ret'.result = None /\ session_key(i) \notin DOMAIN redis'
           ELSE /\ ret'.result = Some(issued[i].data)
                /\ session_key(i) \in DOMAIN redis'
                /\ redis'[session_key(i)].expire_at = now + RollingTicks]_vars

\* a load_session from the session's own client, at an age of exactly the
\* max lifetime and with a signature that unwraps, deleted the record
C21_Witness ==
    /\ ret.op = "load_session"
    /\ ret.result = None
    /\ ret.effect = "delete"
    /\ \E i \in DOMAIN issued :
        /\ ret.token = Some(issued[i].token)
        /\ ret.client = Some(issued[i].data.client)
        /\ Age(i) = LifetimeTicks
        /\ Unwraps(issued[i].token)
        /\ ~Stored(i)

\* the fingerprints that differ from a in the raw user-agent string and the
\* is_bot flag at most
SameButRaw(a) ==
    {x \in ClientFingerprints :
        /\ x.ip_address = a.ip_address
        /\ x.user_agent.device = a.user_agent.device
        /\ x.user_agent.os = a.user_agent.os
        /\ x.user_agent.browser = a.user_agent.browser}

\* C22, fingerprint trust comparison: equals returns True exactly when the
\* two ip_address strings are identical and device, os and browser of the
\* two user agents are identical; replacing the raw user-agent string or the
\* is_bot flag of either side never changes the result; the comparison is
\* reflexive and symmetric.
C22_TrustComparison ==
    [][Equals
        => LET a == The(ret.client)
               b == The(ret.value)
               result == The(ret'.ok)
           IN  /\ result <=> ( /\ a.ip_address = b.ip_address
                               /\ a.user_agent.device = b.user_agent.device
                               /\ a.user_agent.os = b.user_agent.os
                               /\ a.user_agent.browser = b.user_agent.browser )
               /\ \A a2 \in SameButRaw(a), b2 \in SameButRaw(b) :
                    FingerprintEquals(a2, b2) = result
               /\ FingerprintEquals(b, a) = result
               /\ FingerprintEquals(a, a) /\ FingerprintEquals(b, b)]_vars

\* equals returned True for two fingerprints that differ in the raw
\* user-agent string and in the is_bot flag
C22_Witness ==
    /\ ret.op = "equals"
    /\ ret.ok = Some(TRUE)
    /\ The(ret.client).user_agent.user_agent # The(ret.value).user_agent.user_agent
    /\ The(ret.client).user_agent.is_bot # The(ret.value).user_agent.is_bot

\* C23, concurrent validating reads commute: while the key of a session has
\* been neither deleted nor left to expire and the record is younger than the
\* max lifetime, however the GET, check and EXPIRE steps of the load_session
\* calls on its token interleave, the stored payload is the one written at
\* creation, the key is present with a time to live of one rolling expiration
\* counted from the last EXPIRE executed, every call from a matching
\* fingerprint that has returned has returned the record, and once all calls
\* have returned the store is the one a sequential load_session made at the
\* time of that last EXPIRE leaves.
C23_ConcurrentReadsCommute ==
    \A i \in DOMAIN issued :
        (~issued[i].deleted /\ issued[i].reset # Elapsed /\ Age(i) < LifetimeTicks)
        => /\ Intact(i)
           /\ redis[session_key(i)].expire_at = issued[i].reset + RollingTicks
           /\ \A p \in Workers :
                ( /\ calls[p].pc = "done"
                  /\ calls[p].op = "load_session"
                  /\ calls[p].token = Some(issued[i].token)
                  /\ SameClient(The(calls[p].client), issued[i].data.client) )
                => calls[p].result = Some(issued[i].data)
           /\ (\A p \in Workers : calls[p].pc \in {"idle", "done"})
                => load_session(redis, issued[i].token, issued[i].data.client,
                                issued[i].reset)
                     = [redis |-> redis, result |-> Some(issued[i].data),
                        exc |-> ""]

\* two load_session calls from the owner's client have both returned the
\* record, the EXPIRE of one executed between the GET and the EXPIRE of the
\* other, and the key has one rolling expiration from the later EXPIRE
C23_Witness ==
    /\ \A p \in Workers :
            /\ calls[p].pc = "done"
            /\ calls[p].op = "load_session"
            /\ calls[p].result # None
    /\ \E p \in Workers : calls[p].overlapped
    /\ \E i \in DOMAIN issued :
        /\ \A p \in Workers : calls[p].result = Some(issued[i].data)
        /\ Stored(i)
        /\ issued[i].reset > issued[i].data.created_at
        /\ redis[session_key(i)].expire_at = issued[i].reset + RollingTicks
        /\ now > issued[i].reset

\* C24, duration discipline: the max lifetime is not shorter than the rolling
\* expiration; load_session, revoke, get_session_health and
\* inspect_session_health unwrap the signature with max_age = the max
\* lifetime, so with the key in the store each of them gets to the store
\* exactly when the token is at most the max lifetime old (in the signer's
\* whole seconds), also when it is older than the rolling expiration; and the
\* time to live written by create_session and by the extension of load_session
\* is the rolling expiration.
C24_DurationDiscipline ==
    [][/\ SESSION_MAX_LIFETIME >= SESSION_EXPIRATION
       /\ \A u \in Logins :
            CreateSession(u.username, u.role, u.client)
            => \A k \in DOMAIN redis' \ DOMAIN redis :
                    redis'[k].expire_at = now + SESSION_EXPIRATION * TicksPerSecond
       /\ \A i \in DOMAIN issued :
            LET T == issued[i].token
                k == session_key(i)
                within == Seconds(now) - T.ts <= SESSION_MAX_LIFETIME
                ttl == RedisTtl(redis, k, now)
            IN  Stored(i)
                => /\ \A c \in Fingerprints :
                        LoadSession(T, c)
                        => IF within
                           THEN IF ret'.result # None
                                THEN /\ k \in DOMAIN redis'
                                     /\ redis'[k].expire_at
                                          = now + SESSION_EXPIRATION * TicksPerSecond
                                ELSE k \notin DOMAIN redis'
                           ELSE ret'.result = None /\ redis' = redis
                   /\ Revoke(Some(T))
                        => IF within THEN k \notin DOMAIN redis' ELSE redis' = redis
                   /\ GetSessionHealth(T)
                        => /\ ret'.health # None <=> within
                           /\ within => The(ret'.health).health.expires_next
                                            = now + ttl * TicksPerSecond
                   /\ InspectSessionHealth(issued[i].data, T)
                        => The(ret'.health).health.expires_next
                             = IF within THEN now + ttl * TicksPerSecond ELSE now]_vars

\* revoke deleted the key of a token that was older than the rolling
\* expiration and exactly the max lifetime old
C24_Witness ==
    /\ ret.op = "revoke"
    /\ ret.effect = "delete"
    /\ \E i \in DOMAIN issued :
        /\ ret.token = Some(issued[i].token)
        /\ Seconds(now) - issued[i].token.ts = SESSION_MAX_LIFETIME
        /\ Seconds(now) - issued[i].token.ts > SESSION_EXPIRATION
        /\ ~Stored(i)

\* the stored hash of the user named is the hash of the password given
Authenticates(auth_form) ==
    /\ auth_form.username \in DOMAIN users
    /\ PasswordHashes[auth_form.username] = HashOf(auth_form.password)

\* C25, a session is issued only after successful authentication: login with
\* a username that does not exist or a password that the stored hash does not
\* verify fails with InvalidCredentials (HTTP 401) and leaves the session
\* store unchanged, with the same outcome in the two cases; a login changes
\* the store only when the credentials authenticate.
C25_LoginFailure ==
    [][\A f \in LoginBodies, c \in {FpA, FpOs} :
        LoginUser(f, c)
        => /\ ~Authenticates(f)
                => /\ ret'.exc = "HTTPInvalidCredentials"
                   /\ HTTPResponse(ret'.exc).status_code = 401
                   /\ ret'.token = None
                   /\ redis' = redis
           /\ redis' # redis => Authenticates(f)]_vars

\* C26, no resurrection after deletion: create_session is the only operation
\* that adds a key to the store; once the key of a token has been deleted (by
\* revoke or by a load_session that rejected the session) it is never in the
\* store again, whatever load_session, revoke and get_session_health calls
\* are in flight (the EXPIRE of a load_session that read the record before
\* the deletion finds no key and does nothing), and every load_session that
\* starts after the deletion returns None, for every fingerprint.
C26_NoResurrection ==
    [][/\ (DOMAIN redis' \subseteq DOMAIN redis)
            \/ (\E u \in Logins : CreateSession(u.username, u.role, u.client))
       /\ \A i \in DOMAIN issued' :
            issued'[i].deleted
            => /\ session_key(i) \notin DOMAIN redis'
               /\ \A p \in Workers :
                    ( /\ calls'[p].pc = "done"
                      /\ calls'[p].op = "load_session"
                      /\ calls'[p].token = Some(issued'[i].token)
                      /\ calls'[p].after_deletion )
                    => calls'[p].result = None]_vars

\* the key was deleted while a load_session from the owner's client was
\* between its GET and its EXPIRE: the EXPIRE found no key, that call
\* returned the record, and a load_session from the same client started
\* after the deletion returned None, the record being younger than the max
\* lifetime
C26_Witness ==
    \E i \in DOMAIN issued, p \in Workers, q \in Workers :
        /\ issued[i].deleted
        /\ ~Stored(i)
        /\ Age(i) < LifetimeTicks
        /\ calls[p].pc = "done" /\ calls[q].pc = "done"
        /\ calls[p].op = "load_session" /\ calls[q].op = "load_session"
        /\ calls[p].token = Some(issued[i].token)
        /\ calls[q].token = Some(issued[i].token)
        /\ calls[p].client = Some(issued[i].data.client)
        /\ calls[q].client = Some(issued[i].data.client)
        /\ ~calls[p].after_deletion
        /\ calls[p].changed = Some(0)
        /\ calls[p].result = Some(issued[i].data)
        /\ calls[q].after_deletion
        /\ calls[q].result = None

OthersUnchanged(k) ==
    \A j \in DOMAIN issued :
        issued[j].token # k
        => /\ session_key(j) \in DOMAIN redis' <=> session_key(j) \in DOMAIN redis
           /\ session_key(j) \in DOMAIN redis
                => redis'[session_key(j)] = redis[session_key(j)]

\* C28, session isolation: load_session (whatever its outcome), revoke,
\* get_session_health and inspect_session_health called with a string k leave
\* the key, the payload and the time to live of every session whose token is
\* not k unchanged, sessions of the same username included.  (The string and
\* the client of a call are those its record ret' names.)
C28_SessionIsolation ==
    [][\A k \in ret'.token :
        /\ \A c \in ret'.client : LoadSession(k, c) => OthersUnchanged(k)
        /\ Revoke(Some(k)) => OthersUnchanged(k)
        /\ GetSessionHealth(k) => OthersUnchanged(k)
        /\ \A i \in DOMAIN issued :
            InspectSessionHealth(issued[i].data, k) => OthersUnchanged(k)]_vars

\* a load_session from a foreign client deleted one session of a user while
\* the other session of the same user, extended before, stays with its
\* record and its time to live
C28_Witness ==
    /\ ret.op = "load_session"
    /\ ret.effect = "delete"
    /\ \E i \in DOMAIN issued, j \in DOMAIN issued :
        /\ i # j
        /\ ret.token = Some(issued[i].token)
        /\ ~SameClient(The(ret.client), issued[i].data.client)
        /\ ~Stored(i)
        /\ issued[j].data.identity = issued[i].data.identity
        /\ Intact(j)
        /\ issued[j].reset > issued[j].data.created_at
        /\ redis[session_key(j)].expire_at = issued[j].reset + RollingTicks

\* C29, session info only for an acceptable session: a session-info request
\* is answered with SessionInfo only when load_session would accept its token
\* for the client that sends it (signature and record age within the maximum
\* lifetime, record present and parseable, fingerprint trusted), and with
\* HTTPForbidden in every other case.
C29_SessionInfoOnlyAcceptable ==
    [][(ret'.op = "get_session_status" /\ ret'.client # None) =>
        LET accepted ==
                \E k \in ret'.token, c \in ret'.client :
                    load_session(redis, k, c, now).result # None
        IN  IF accepted THEN ret'.exc = "" /\ ret'.health # None
            ELSE ret'.exc = "HTTPForbidden" /\ ret'.health = None]_vars

\* C30, the role gate reads the user table: on a role gated request whose
\* session validates, the user is looked up by the session's
\* identity.username at that moment.  While the username resolves, the
\* request is allowed exactly when the role the row holds now is at least
\* min_role, whatever role the session record captured, and the user handed
\* to the route carries the row's role; when it does not resolve, the request
\* is rejected and the session record stays in the store.
C30_RoleFromUserStore ==
    [][\A k \in ret'.token, c \in ret'.client, session \in ret'.result :
        (/\ ret'.op = "role_required"
         /\ \E tree \in Trees :
                RoleRequired(Some(Bearer(Some(k))), c, ret'.min_role, tree)) =>
            LET username == session.identity.username
            IN  IF username \in DOMAIN users
                THEN /\ ret'.exc = "" <=> Rank(users[username]) >= Rank(ret'.min_role)
                     /\ ret'.exc # "" => ret'.exc = "RoleNotAllowed" /\ ret'.user = None
                     /\ ret'.exc = "" =>
                            ret'.user = Some([username |-> username,
                                              role |-> users[username]])
                ELSE /\ ret'.exc \in {"UserSessionInvalid", "HTTPNotFound"}
                     /\ ret'.user = None
                     /\ \E i \in DOMAIN issued :
                            /\ ret'.token = Some(issued[i].token)
                            /\ session_key(i) \in DOMAIN redis'
                            /\ redis'[session_key(i)].value = json_dumps(issued[i].data)]_vars

\* a session issued to an admin was presented on an admin route after the
\* user's row was changed to read_only: the session validated and the
\* request was rejected
C30_Witness ==
    /\ ret.op = "role_required"
    /\ ret.exc = "RoleNotAllowed"
    /\ ret.min_role = "admin"
    /\ \E session \in ret.result :
        /\ session.identity.role = "admin"
        /\ users[session.identity.username] = "read_only"

====
